---- MODULE Spec2Model ----
(***************************************************************************)
(* LaborGuard: the retrieval-augmented answer pipeline behind POST         *)
(* /api/chat (api/api.py), RagFlow.answer (ragflow/ragflow.py) and the     *)
(* DashScope reranker post-processor (models/rerank/dashcope.py).          *)
(* RagFlow.__init__ selects its rerank_model by commenting code in and     *)
(* out; the backend modelled here is DashscopeRerankerPostprocessor, and   *)
(* the @timer decorator of RagFlow's methods is taken to pass results and  *)
(* exceptions through unchanged.                                           *)
(*                                                                         *)
(* Texts are sequences of characters; a non-ASCII character is written as  *)
(* its code point ("u52b3" is 劳).  Scores are in tenths                    *)
(* (0.5 is 5); keyword weights and the classifier threshold are in         *)
(* thousandths (0.35 is 350).                                              *)
(***************************************************************************)
EXTENDS Integers, Sequences, FiniteSets, TLC

VARIABLES
    pc,              \* position of the single worker inside chat_with_assistant
    request,         \* ChatRequest being served: question, conversation_id
    question,        \* request.question.strip()
    is_legal,        \* verdict of is_legal_question(question)
    nodes,           \* initial_nodes: the retriever's NodeWithScore objects (scores updated in place)
    i,               \* loop variable of the batch loop in _postprocess_nodes
    all_results,     \* all_results of _postprocess_nodes: positions into nodes
    rerank_log,      \* what _call_dashscope_rerank returned for each batch so far
    reranked_nodes,  \* value returned by rerank_model.postprocess_nodes
    evidence,        \* filtered_nodes returned by RagFlow.rerank
    generated,       \* how the call of the generation service ended: none yet, ok, error
    answer,          \* response_text of RagFlow.answer
    raised,          \* exception travelling to the except clause of chat_with_assistant
    response,        \* what the caller receives
    calls,           \* stages invoked for the current request, in order
    debug_info,      \* debug_info logged by is_legal_question for the current request
    ragflow,         \* the module global ragflow of api.py: undefined until startup_event
    runs,            \* the locals of each of the overlapping calls served by one RagFlow
    heap             \* the NodeWithScore objects these calls hold references to

vars == <<pc, request, question, is_legal, nodes, i, all_results, rerank_log,
          reranked_nodes, evidence, generated, answer, raised, response, calls,
          debug_info, ragflow, runs, heap>>

\* what a request handler leaves alone: the process-wide state
process == <<ragflow, runs, heap>>

-----------------------------------------------------------------------------
(* Bounds of the model *)

\* longest question drawn from the small alphabet
MaxQuestionLen == 1

\* similarity_top_k of the retriever (CONFIG_RAG["top_k"], 20 in config.py), scaled down
top_k == 4

\* batch_size of _postprocess_nodes (20 in the source), scaled down so that
\* a retrieval of top_k candidates spans more than one batch
batch_size == 2

\* self.top_n of the reranker (CONFIG_RAG["rerank_top_n"], 20 in config.py), scaled down
top_n == 3

-----------------------------------------------------------------------------
(* Program constants *)

\* CONFIG_RAG["rerank_min_score"], default 0.5, in tenths
rerank_min_score == 5

-----------------------------------------------------------------------------
(* Text helpers: str.strip, substring test, str.split *)

WhiteSpace == {" ", "\t", "\n"}

Range(s) == {s[k] : k \in 1..Len(s)}

RECURSIVE lstrip(_)
lstrip(s) == IF s # <<>> /\ Head(s) \in WhiteSpace THEN lstrip(Tail(s)) ELSE s

RECURSIVE rstrip(_)
rstrip(s) ==
    IF s # <<>> /\ s[Len(s)] \in WhiteSpace THEN rstrip(SubSeq(s, 1, Len(s) - 1)) ELSE s

strip(s) == rstrip(lstrip(s))

\* Python's `kw in text`
Contains(text, kw) ==
    \E k \in 0..(Len(text) - Len(kw)) : SubSeq(text, k + 1, k + Len(kw)) = kw

\* length of the leading run of non-whitespace characters
RECURSIVE WordLen(_)
WordLen(s) == IF s = <<>> \/ Head(s) \in WhiteSpace THEN 0 ELSE 1 + WordLen(Tail(s))

\* str.split() with no argument: the whitespace-delimited tokens
RECURSIVE split(_)
split(s) ==
    LET t == lstrip(s)
    IN  IF t = <<>> THEN <<>>
        ELSE <<SubSeq(t, 1, WordLen(t))>> \o split(SubSeq(t, WordLen(t) + 1, Len(t)))

-----------------------------------------------------------------------------
(* is_legal_question *)

\* the keyword table, in the dict's insertion order
legal_keywords == <<
    [keyword |-> <<"u52b3", "u52a8", "u6cd5">>, weight |-> 500],  \* 劳动法: 0.5
    [keyword |-> <<"u52b3", "u52a8", "u5408", "u540c">>, weight |-> 500],  \* 劳动合同: 0.5
    [keyword |-> <<"u52b3", "u52a8", "u5408", "u540c", "u6cd5">>, weight |-> 500],  \* 劳动合同法: 0.5
    [keyword |-> <<"u52b3", "u52a8", "u4e89", "u8bae">>, weight |-> 500],  \* 劳动争议: 0.5
    [keyword |-> <<"u5de5", "u8d44">>, weight |-> 400],  \* 工资: 0.4
    [keyword |-> <<"u52a0", "u73ed", "u8d39">>, weight |-> 400],  \* 加班费: 0.4
    [keyword |-> <<"u5de5", "u4f24">>, weight |-> 400],  \* 工伤: 0.4
    [keyword |-> <<"u8d54", "u507f">>, weight |-> 400],  \* 赔偿: 0.4
    [keyword |-> <<"u7ecf", "u6d4e", "u8865", "u507f">>, weight |-> 400],  \* 经济补偿: 0.4
    [keyword |-> <<"u89e3", "u9664", "u5408", "u540c">>, weight |-> 400],  \* 解除合同: 0.4
    [keyword |-> <<"u7ec8", "u6b62", "u5408", "u540c">>, weight |-> 400],  \* 终止合同: 0.4
    [keyword |-> <<"u7528", "u4eba", "u5355", "u4f4d">>, weight |-> 300],  \* 用人单位: 0.3
    [keyword |-> <<"u52b3", "u52a8", "u8005">>, weight |-> 300],  \* 劳动者: 0.3
    [keyword |-> <<"u96c7", "u4e3b">>, weight |-> 300],  \* 雇主: 0.3
    [keyword |-> <<"u5458", "u5de5">>, weight |-> 300],  \* 员工: 0.3
    [keyword |-> <<"u804c", "u5de5">>, weight |-> 300],  \* 职工: 0.3
    [keyword |-> <<"u793e", "u4fdd">>, weight |-> 300],  \* 社保: 0.3
    [keyword |-> <<"u793e", "u4f1a", "u4fdd", "u9669">>, weight |-> 300],  \* 社会保险: 0.3
    [keyword |-> <<"u516c", "u79ef", "u91d1">>, weight |-> 300],  \* 公积金: 0.3
    [keyword |-> <<"u4e94", "u9669", "u4e00", "u91d1">>, weight |-> 300],  \* 五险一金: 0.3
    [keyword |-> <<"u8bd5", "u7528", "u671f">>, weight |-> 300],  \* 试用期: 0.3
    [keyword |-> <<"u7ade", "u4e1a", "u9650", "u5236">>, weight |-> 300],  \* 竞业限制: 0.3
    [keyword |-> <<"u4fdd", "u5bc6", "u534f", "u8bae">>, weight |-> 300],  \* 保密协议: 0.3
    [keyword |-> <<"u52b3", "u52a1", "u6d3e", "u9063">>, weight |-> 300],  \* 劳务派遣: 0.3
    [keyword |-> <<"u5e74", "u5047">>, weight |-> 200],  \* 年假: 0.2
    [keyword |-> <<"u4ea7", "u5047">>, weight |-> 200],  \* 产假: 0.2
    [keyword |-> <<"u75c5", "u5047">>, weight |-> 200],  \* 病假: 0.2
    [keyword |-> <<"u5a5a", "u5047">>, weight |-> 200],  \* 婚假: 0.2
    [keyword |-> <<"u4e27", "u5047">>, weight |-> 200],  \* 丧假: 0.2
    [keyword |-> <<"u5de5", "u4f5c", "u65f6", "u95f4">>, weight |-> 200],  \* 工作时间: 0.2
    [keyword |-> <<"u4f11", "u606f", "u4f11", "u5047">>, weight |-> 200],  \* 休息休假: 0.2
    [keyword |-> <<"u5de5", "u4f5c", "u73af", "u5883">>, weight |-> 200],  \* 工作环境: 0.2
    [keyword |-> <<"u52b3", "u52a8", "u4ef2", "u88c1">>, weight |-> 300],  \* 劳动仲裁: 0.3
    [keyword |-> <<"u6cd5", "u9662", "u8d77", "u8bc9">>, weight |-> 300],  \* 法院起诉: 0.3
    [keyword |-> <<"u8c03", "u89e3">>, weight |-> 200]   \* 调解: 0.2
>>

\* the threshold with the length factor subtracted
dynamic_threshold_decreasing(text) ==
    LET length_factor == IF 2 * Len(text) < 100 THEN 2 * Len(text) ELSE 100
    IN  450 - length_factor

\* the threshold without the min(..., 0.1) cap
dynamic_threshold_uncapped(text) == 350 + 2 * Len(text)

\* the threshold with 0.02 added per character instead of per 10 characters
dynamic_threshold_per_char(text) ==
    LET length_factor == IF 20 * Len(text) < 100 THEN 20 * Len(text) ELSE 100
    IN  350 + length_factor

\* base_threshold + length_factor
dynamic_threshold(text) ==
    LET length_factor == IF 2 * Len(text) < 100 THEN 2 * Len(text) ELSE 100
    IN  350 + length_factor

\* the loop with a dedup check that works: a keyword is skipped when a
\* keyword matched before it is a part of it
RECURSIVE scan_dedup(_, _, _, _)
scan_dedup(text, k, total_score, matched_keywords) ==
    IF k > Len(legal_keywords)
    THEN [total_score |-> total_score, matched_keywords |-> matched_keywords]
    ELSE LET keyword == legal_keywords[k].keyword
             weight == legal_keywords[k].weight
         IN  IF /\ Contains(text, keyword)
                /\ ~ \E kw \in matched_keywords : Contains(keyword, kw)
             THEN scan_dedup(text, k + 1, total_score + weight, matched_keywords \cup {keyword})
             ELSE scan_dedup(text, k + 1, total_score, matched_keywords)

\* the for loop over legal_keywords.items(), from entry k on
RECURSIVE scan(_, _, _, _)
scan(text, k, total_score, matched_keywords) ==
    IF k > Len(legal_keywords)
    THEN [total_score |-> total_score, matched_keywords |-> matched_keywords]
    ELSE LET keyword == legal_keywords[k].keyword
             weight == legal_keywords[k].weight
         IN  IF /\ Contains(text, keyword)
                /\ ~ \E kw \in Range(split(keyword)) : kw \in matched_keywords
             THEN scan(text, k + 1, total_score + weight, matched_keywords \cup {keyword})
             ELSE scan(text, k + 1, total_score, matched_keywords)

\* is_legal_question with the comparison turned around
is_legal_question_reversed(text) ==
    scan(text, 1, 0, {}).total_score <= dynamic_threshold(text)

\* is_legal_question with a strict comparison
is_legal_question_strict(text) ==
    scan(text, 1, 0, {}).total_score > dynamic_threshold(text)

is_legal_question(text) == scan(text, 1, 0, {}).total_score >= dynamic_threshold(text)

\* the debug_info that is_legal_question logs before it returns
Legal_question_check(text) ==
    [length |-> Len(text),
     matched_keywords |-> scan(text, 1, 0, {}).matched_keywords,
     total_score |-> scan(text, 1, 0, {}).total_score,
     dynamic_threshold |-> dynamic_threshold(text),
     is_legal |-> is_legal_question(text)]

\* nothing logged yet
NoDebugInfo ==
    [length |-> 0, matched_keywords |-> {}, total_score |-> 0,
     dynamic_threshold |-> 0, is_legal |-> FALSE]

-----------------------------------------------------------------------------
(* Requests *)

\* a blank, a character of no keyword (天) and the two characters of the keyword 工资
Alphabet == {" ", "u5929", "u5de5", "u8d44"}

RECURSIVE StringsUpTo(_)
StringsUpTo(n) ==
    IF n = 0 THEN {<<>>}
    ELSE LET shorter == StringsUpTo(n - 1)
         IN  shorter \cup {Append(s, c) : s \in {t \in shorter : Len(t) = n - 1}, c \in Alphabet}

\* questions of apiTest.py: 今天天气怎么样？ / 劳动合同应该包含哪些内容？ / 年假天数如何计算？
TestQuestions == {
    <<"u4eca", "u5929", "u5929", "u6c14", "u600e", "u4e48", "u6837", "uff1f">>,
    <<"u52b3", "u52a8", "u5408", "u540c", "u5e94", "u8be5", "u5305", "u542b", "u54ea", "u4e9b", "u5185", "u5bb9", "uff1f">>,
    <<"u5e74", "u5047", "u5929", "u6570", "u5982", "u4f55", "u8ba1", "u7b97", "uff1f">>
}

Questions == StringsUpTo(MaxQuestionLen) \cup TestQuestions

None == "None"

ConversationIds == {None, "test_conv_123"}

-----------------------------------------------------------------------------
(* Answers: sequences of characters; a fixed message is written as one
   element, which stands for its whole text (no marker, no blank at its ends) *)

\* "对不起，我暂时无法回答劳动法之外的问题哦～"
OutOfDomainMsg == <<"sorry, I cannot answer questions outside labor law for now">>

\* "⚠️ 未找到相关法律条文，请尝试调整问题描述或咨询专业律师。"
NoEvidenceMsg == <<"(!) no relevant legal provision found, rephrase or consult a lawyer">>

\* detail of the HTTPException(400): "问题不能为空"
EmptyQuestionDetail == "question must not be empty"

\* detail of the HTTPException(500): "处理问题时出错"
GenericErrorDetail == "error while processing the question"

\* the markers of the two regular expressions
OpenMark == <<"<", "t", "h", "i", "n", "k", ">">>

CloseMark == <<"<", "/", "t", "h", "i", "n", "k", ">">>

\* position of the first occurrence of pat in s at or after position from,
\* 0 when there is none
FindFrom(s, pat, from) ==
    LET at == {k \in from..(Len(s) - Len(pat) + 1) : SubSeq(s, k, k + Len(pat) - 1) = pat}
    IN  IF at = {} THEN 0 ELSE CHOOSE k \in at : \A j \in at : k <= j

Find(s, pat) == FindFrom(s, pat, 1)

Drop(s, n) == SubSeq(s, n + 1, Len(s))

\* the first match of r'<think>.*?</think>' in s at or after position from:
\* the leftmost <think> and the first </think> after it, as the positions
\* of its first and last character; <<0, 0>> when there is no match
Match(s, from) ==
    LET open == FindFrom(s, OpenMark, from)
        close == IF open = 0 THEN 0 ELSE FindFrom(s, CloseMark, open + Len(OpenMark))
    IN  IF close = 0 THEN <<0, 0>> ELSE <<open, close + Len(CloseMark) - 1>>

\* re.sub(r'<think>.*?</think>', '', s, flags=re.DOTALL) from position from
\* on: the text before the match is kept, the search goes on after the
\* match, and the result is not searched again (m ranges over the one match
\* at from, so that the match is computed once)
RECURSIVE SubThinkFrom(_, _)
SubThinkFrom(s, from) ==
    CHOOSE out \in {IF m[1] = 0 THEN SubSeq(s, from, Len(s))
                    ELSE SubSeq(s, from, m[1] - 1) \o SubThinkFrom(s, m[2] + 1) :
                    m \in {Match(s, from)}} : TRUE

SubThink(s) == SubThinkFrom(s, 1)

\* re.findall(r'<think>(.*?)</think>', s, re.DOTALL) from position from on
RECURSIVE FindAllThinkFrom(_, _)
FindAllThinkFrom(s, from) ==
    CHOOSE out \in {IF m[1] = 0 THEN <<>>
                    ELSE <<SubSeq(s, m[1] + Len(OpenMark), m[2] - Len(CloseMark))>>
                            \o FindAllThinkFrom(s, m[2] + 1) :
                    m \in {Match(s, from)}} : TRUE

FindAllThink(s) == FindAllThinkFrom(s, 1)

-----------------------------------------------------------------------------
(* External capabilities: what the index, the rerank service and the
   generation service can hand back *)

Min(a, b) == IF a < b THEN a ELSE b

\* scores on the retriever's scale
RetrieverScores == {5, 7}

\* relevance scores of the rerank service
RerankScores == {4, 5, 6, 7}

\* what self.retriever.retrieve(question) can do: raise, or return up to
\* top_k NodeWithScore in decreasing order of score; id is the retrieval rank
\* and stands for the chunk (title, source file, law name, text)
RetrieverOutcomes ==
    {[kind |-> "error", nodes |-> <<>>]} \cup
    {[kind |-> "ok", nodes |-> [k \in 1..Len(sc) |-> [id |-> k, score |-> sc[k]]]] :
        sc \in {f \in UNION {[1..m -> RetrieverScores] : m \in 0..top_k} :
                    \A k \in 1..(Len(f) - 1) : f[k] >= f[k + 1]}}

\* insert x into s after every element whose score is at least that of x
RECURSIVE InsertByScore(_, _, _)
InsertByScore(s, x, score) ==
    IF s = <<>> THEN <<x>>
    ELSE IF score[Head(s)] >= score[x] THEN <<Head(s)>> \o InsertByScore(Tail(s), x, score)
    ELSE <<x>> \o s

\* list.sort(key=score, reverse=True): descending and stable (sorted ranges
\* over the one sorted prefix, so that the prefix is sorted once)
RECURSIVE SortDesc(_, _)
SortDesc(s, score) ==
    IF s = <<>> THEN <<>>
    ELSE CHOOSE out \in {InsertByScore(sorted, s[Len(s)], score) :
                         sorted \in {SortDesc(SubSeq(s, 1, Len(s) - 1), score)}} : TRUE

\* output.results of the rerank service for n documents: one item per
\* document, in decreasing order of relevance, index counted from 0; bad is
\* the position of an item whose relevance_score float() rejects, such as
\* null (0: none), which floatable records
ServiceResults(rel, bad) ==
    LET n == Len(rel)
        order == SortDesc([d \in 1..n |-> d], rel)
    IN  [p \in 1..n |->
            [index |-> order[p] - 1,
             relevance_score |-> IF p = bad THEN 0 ELSE rel[order[p]],
             floatable |-> p # bad]]

\* what the POST to the rerank service can do for a batch of n documents,
\* for every size of a batch
ServiceOutcomes ==
    [n \in 1..batch_size |->
        {[kind |-> "error", results |-> <<>>]} \cup
        {[kind |-> "ok", results |-> ServiceResults(rel, bad)] :
            rel \in [1..n -> RerankScores], bad \in 0..n}]

RerankServiceOutcomes(n) == ServiceOutcomes[n]

\* _call_dashscope_rerank: the results, or [] when the request fails or the
\* response carries no results
_call_dashscope_rerank(outcome) ==
    IF outcome.kind = "ok" /\ outcome.results # <<>> THEN outcome.results ELSE <<>>

\* texts the generation service can produce
Answers == {
    <<"a">>,
    OpenMark \o <<"t">> \o CloseMark \o <<" ", "a", " ">>
}

\* what the POST of QwenAILLM._call_api can do: fail, or answer with a body
GenerationOutcomes ==
    {[kind |-> "error", text |-> <<>>]} \cup {[kind |-> "ok", text |-> t] : t \in Answers}

\* QwenAILLM._call_api: the decoded body, or {} on a request or decoding error
_call_api(outcome) ==
    IF outcome.kind = "ok" THEN [choices |-> outcome.text] ELSE <<>>

-----------------------------------------------------------------------------
(* Responses *)

NoBody == [answer |-> <<>>, reply_text |-> <<>>, is_legal |-> FALSE,
           references |-> <<>>, thoughts |-> <<>>, conversation_id |-> None]

NoResponse == [status_code |-> 0, detail |-> "", body |-> NoBody]

\* raise HTTPException(status_code=..., detail=...) leaving the handler
HTTPException(status_code, detail) ==
    [status_code |-> status_code, detail |-> detail, body |-> NoBody]

\* the except clause with detail=str(e): "str(e)" stands for the message of
\* the exception, whatever it is
except_Exception_str(e) == HTTPException(500, "str(e)")

\* the except clause of chat_with_assistant: whatever was raised in the try
\* block, the HTTPException(400) included, leaves as HTTPException(500)
except_Exception(e) == HTTPException(500, GenericErrorDetail)

\* process_nodes with the references in reverse order
process_nodes_reversed(ns) ==
    [k \in 1..Len(ns) |-> [chunk |-> ns[Len(ns) + 1 - k].id, score |-> ns[Len(ns) + 1 - k].score]]

\* process_nodes: one ReferenceNode per node, in order
process_nodes(ns) == [k \in 1..Len(ns) |-> [chunk |-> ns[k].id, score |-> ns[k].score]]

\* ChatResponse(...) of lines 191-196 with the defaults of the model class
InitialResponse(verdict, conversation_id) ==
    [answer |-> OutOfDomainMsg, reply_text |-> OutOfDomainMsg, is_legal |-> verdict,
     references |-> <<>>, thoughts |-> <<>>, conversation_id |-> conversation_id]

Ok(body) == [status_code |-> 200, detail |-> "", body |-> body]

-----------------------------------------------------------------------------
(* The handler chat_with_assistant, stage by stage *)

NoRequest == [question |-> <<>>, conversation_id |-> None]

\* number of requests in flight at once
MaxRuns == 2

\* the requests, numbered in the order in which they arrive
RunIds == 1..MaxRuns

\* where a NodeWithScore lives: the k-th object made for request r
Addresses == RunIds \X (1..top_k)

\* a place of the heap no object was made at yet
NoObject == [id |-> 0, score |-> 0]

NoHeap == [a \in Addresses |-> NoObject]

NoOutcome == [kind |-> "none", nodes |-> <<>>]

\* the locals of a call of chat_with_assistant that has not started, and
\* what the external services answered to it (retrieved, rerank_log,
\* generated); earlier is the set of requests answered before it arrived
NoRun ==
    [pc |-> "idle", request |-> NoRequest, question |-> <<>>, is_legal |-> FALSE,
     retrieved |-> NoOutcome, nodes |-> <<>>, i |-> 0, all_results |-> <<>>,
     rerank_log |-> <<>>, reranked_nodes |-> <<>>, evidence |-> <<>>,
     generated |-> [kind |-> "none", text |-> <<>>], answer |-> <<>>, raised |-> "none",
     response |-> NoResponse, earlier |-> {}]

NoRuns == [r \in RunIds |-> NoRun]

Init ==
    /\ pc = "idle"
    /\ request = NoRequest
    /\ question = <<>>
    /\ is_legal = FALSE
    /\ nodes = <<>>
    /\ i = 0
    /\ all_results = <<>>
    /\ rerank_log = <<>>
    /\ reranked_nodes = <<>>
    /\ evidence = <<>>
    /\ generated = "none"
    /\ answer = <<>>
    /\ raised = "none"
    /\ response = NoResponse
    /\ calls = <<>>
    /\ debug_info = NoDebugInfo
    /\ ragflow = "undefined"
    /\ runs = NoRuns
    /\ heap = NoHeap

\* startup_event: RagFlow() is constructed and bound to the global; the
\* server runs it before it serves, a TestClient that is not entered as a
\* context manager (apiTest.py) never does
startup_event ==
    /\ pc = "idle"
    /\ ragflow = "undefined"
    /\ ragflow' = "ready"
    /\ UNCHANGED <<pc, request, question, is_legal, nodes, i, all_results, rerank_log,
                   reranked_nodes, evidence, generated, answer, raised, response, calls,
                   debug_info, runs, heap>>

\* a request arrives: lines 183-185, and 216-218 when the question is empty
\* after strip()
Receive ==
    /\ pc = "idle"
    /\ \E q \in Questions, cid \in ConversationIds :
        /\ request' = [question |-> q, conversation_id |-> cid]
        /\ question' = strip(q)
        /\ IF strip(q) = <<>>
           THEN /\ raised' = "HTTPException(400)"
                /\ response' = except_Exception(HTTPException(400, EmptyQuestionDetail))
                /\ pc' = "done"
           ELSE /\ raised' = "none"
                /\ response' = NoResponse
                /\ pc' = "classify"
    /\ is_legal' = FALSE
    /\ nodes' = <<>>
    /\ i' = 0
    /\ all_results' = <<>>
    /\ rerank_log' = <<>>
    /\ reranked_nodes' = <<>>
    /\ evidence' = <<>>
    /\ generated' = "none"
    /\ answer' = <<>>
    /\ calls' = <<>>
    /\ debug_info' = NoDebugInfo
    /\ UNCHANGED process

\* Classify without the `if is_legal:` guard of line 198
Classify_NoShortCircuit ==
    /\ pc = "classify"
    /\ calls' = Append(calls, "is_legal_question")
    /\ is_legal' = is_legal_question(question)
    /\ debug_info' = Legal_question_check(question)
    /\ pc' = "retrieve"
    /\ UNCHANGED <<request, question, nodes, i, all_results, rerank_log,
                   reranked_nodes, evidence, generated, answer, raised, response>>
    /\ UNCHANGED process

\* Classify with a request that carries a conversation id taken to continue
\* a labor-law conversation
Classify_ConversationAware ==
    /\ pc = "classify"
    /\ calls' = Append(calls, "is_legal_question")
    /\ debug_info' = Legal_question_check(question)
    /\ \E verdict \in {is_legal_question(question) \/ request.conversation_id # None} :
        /\ is_legal' = verdict
        /\ IF verdict
           THEN /\ pc' = "retrieve"
                /\ UNCHANGED response
           ELSE /\ pc' = "done"
                /\ response' = Ok(InitialResponse(FALSE, request.conversation_id))
    /\ UNCHANGED <<request, question, nodes, i, all_results, rerank_log,
                   reranked_nodes, evidence, generated, answer, raised>>
    /\ UNCHANGED process

\* lines 190-198, and 213-214 when the verdict is false
Classify ==
    /\ pc = "classify"
    /\ calls' = Append(calls, "is_legal_question")
    /\ is_legal' = is_legal_question(question)
    /\ debug_info' = Legal_question_check(question)
    /\ IF is_legal_question(question)
       THEN /\ pc' = "retrieve"
            /\ UNCHANGED response
       ELSE /\ pc' = "done"
            /\ response' = Ok(InitialResponse(FALSE, request.conversation_id))
    /\ UNCHANGED <<request, question, nodes, i, all_results, rerank_log,
                   reranked_nodes, evidence, generated, answer, raised>>
    /\ UNCHANGED process

\* api.py line 201: the name ragflow is not bound before startup_event has
\* run, and the NameError goes to the except clause; otherwise
\* RagFlow.answer line 119, RagFlow.retrieve: the index query returns, or
\* raises through answer into the except clause of the handler
Retrieve ==
    /\ pc = "retrieve"
    /\ IF ragflow = "undefined"
       THEN /\ raised' = "NameError"
            /\ response' = except_Exception("NameError")
            /\ pc' = "done"
            /\ UNCHANGED <<nodes, calls>>
       ELSE /\ calls' = Append(calls, "retrieve")
            /\ \E outcome \in RetrieverOutcomes :
                IF outcome.kind = "error"
                THEN /\ raised' = "RetrievalError"
                     /\ response' = except_Exception("RetrievalError")
                     /\ pc' = "done"
                     /\ UNCHANGED nodes
                ELSE /\ nodes' = outcome.nodes
                     /\ pc' = "rerank"
                     /\ UNCHANGED <<raised, response>>
    /\ UNCHANGED <<debug_info, request, question, is_legal, i, all_results, rerank_log,
                   reranked_nodes, evidence, generated, answer>>
    /\ UNCHANGED process

\* nodes[:self.top_n]
Truncate(ns) == SubSeq(ns, 1, Min(top_n, Len(ns)))

\* RagFlow.answer line 122, RagFlow.rerank lines 102-105, postprocess_nodes
\* and the early return of _postprocess_nodes (lines 86-87)
Rerank ==
    /\ pc = "rerank"
    /\ calls' = Append(calls, "rerank")
    /\ IF nodes = <<>>
       THEN /\ reranked_nodes' = Truncate(nodes)
            /\ pc' = "filter"
       ELSE /\ pc' = "batch"
            /\ UNCHANGED reranked_nodes
    /\ i' = 0
    /\ all_results' = <<>>
    /\ UNCHANGED <<debug_info, request, question, is_legal, nodes, rerank_log, evidence,
                   generated, answer, raised, response>>
    /\ UNCHANGED process

\* position of the first of the first z results whose relevance_score
\* float() rejects, 0 when there is none
FirstBad(results, z) ==
    IF \E p \in 1..z : ~results[p].floatable
    THEN CHOOSE p \in 1..z :
            /\ ~results[p].floatable
            /\ \A r \in 1..(p - 1) : results[r].floatable
    ELSE 0

\* the loop `for node, result in zip(batch_nodes, rerank_results)` run over
\* the batch starting after offset: the first upd nodes of the batch take
\* the score of the result at the same position
UpdateScores(ns, offset, results, upd) ==
    [p \in 1..Len(ns) |->
        IF p \in (offset + 1)..(offset + upd)
        THEN [ns[p] EXCEPT !.score = results[p - offset].relevance_score]
        ELSE ns[p]]

\* one iteration of the batch loop (lines 93-105), the service answering
\* with one of Outcomes[n] for a batch of n documents; a result that float()
\* rejects raises into the handler of lines 111-113
RerankBatchOn(Outcomes) ==
    /\ pc = "batch"
    /\ i < Len(nodes)
    /\ calls' = Append(calls, "_call_dashscope_rerank")
    /\ LET n == Min(batch_size, Len(nodes) - i)
       IN  \E outcome \in Outcomes[n] :
            LET rerank_results == _call_dashscope_rerank(outcome)
                z == Min(n, Len(rerank_results))
                bad == FirstBad(rerank_results, z)
                upd == IF bad = 0 THEN z ELSE bad - 1
                updated == UpdateScores(nodes, i, rerank_results, upd)
            IN  /\ rerank_log' = Append(rerank_log, outcome)
                /\ nodes' = updated
                /\ IF bad = 0
                   THEN /\ all_results' = all_results \o [p \in 1..z |-> i + p]
                        /\ i' = i + batch_size
                        /\ pc' = "batch"
                        /\ UNCHANGED reranked_nodes
                   ELSE /\ reranked_nodes' = Truncate(updated)
                        /\ pc' = "filter"
                        /\ UNCHANGED <<all_results, i>>
    /\ UNCHANGED <<debug_info, request, question, is_legal, evidence, generated, answer, raised,
                   response>>
    /\ UNCHANGED process

\* the batch loop against a service that answers every document of a batch
RerankBatch == RerankBatchOn([n \in 1..batch_size |-> RerankServiceOutcomes(n)])

\* lines 107-109: the global sort and the cut to top_n
RerankSort ==
    /\ pc = "batch"
    /\ i >= Len(nodes)
    /\ LET score == [p \in 1..Len(nodes) |-> nodes[p].score]
           sorted == SortDesc(all_results, score)
       IN  reranked_nodes' = Truncate([k \in 1..Len(sorted) |-> nodes[sorted[k]]])
    /\ pc' = "filter"
    /\ UNCHANGED <<debug_info, request, question, is_legal, nodes, i, all_results, rerank_log,
                   evidence, generated, answer, raised, response, calls>>
    /\ UNCHANGED process

\* the filter with >= in place of >
filtered_nodes_inclusive(ns) == SelectSeq(ns, LAMBDA node : node.score >= rerank_min_score)

\* [node for node in reranked_nodes if node.score > CONFIG_RAG["rerank_min_score"]]
filtered_nodes(ns) == SelectSeq(ns, LAMBDA node : node.score > rerank_min_score)

\* Filter without the `if not reranked_nodes:` branch of RagFlow.answer
Filter_AlwaysSynthesize ==
    /\ pc = "filter"
    /\ evidence' = SelectSeq(reranked_nodes, LAMBDA node : node.score > rerank_min_score)
    /\ pc' = "synthesize"
    /\ UNCHANGED <<debug_info, request, question, is_legal, nodes, i, all_results, rerank_log,
                   reranked_nodes, generated, answer, raised, response, calls>>
    /\ UNCHANGED process

\* RagFlow.rerank lines 107-108 and RagFlow.answer lines 123-125
Filter ==
    /\ pc = "filter"
    /\ evidence' = filtered_nodes(reranked_nodes)
    /\ IF filtered_nodes(reranked_nodes) = <<>>
       THEN /\ answer' = NoEvidenceMsg
            /\ pc' = "respond"
       ELSE /\ pc' = "synthesize"
            /\ UNCHANGED answer
    /\ UNCHANGED <<debug_info, request, question, is_legal, nodes, i, all_results, rerank_log,
                   reranked_nodes, generated, raised, response, calls>>
    /\ UNCHANGED process

\* Synthesize with a generation failure recovered as the no-evidence message
Synthesize_Recover ==
    /\ pc = "synthesize"
    /\ calls' = Append(calls, "synthesize")
    /\ \E outcome \in GenerationOutcomes :
        LET body == _call_api(outcome)
        IN  /\ generated' = outcome.kind
            /\ answer' = IF "choices" \in DOMAIN body THEN body.choices ELSE NoEvidenceMsg
    /\ pc' = "respond"
    /\ UNCHANGED <<debug_info, request, question, is_legal, nodes, i, all_results, rerank_log,
                   reranked_nodes, evidence, raised, response>>
    /\ UNCHANGED process

\* Synthesize with the failure answered but the handler not left
Synthesize_FallsThrough ==
    /\ pc = "synthesize"
    /\ calls' = Append(calls, "synthesize")
    /\ \E outcome \in GenerationOutcomes :
        LET body == _call_api(outcome)
        IN  /\ generated' = outcome.kind
            /\ pc' = "respond"
            /\ IF "choices" \in DOMAIN body
               THEN /\ answer' = body.choices
                    /\ UNCHANGED <<raised, response>>
               ELSE /\ raised' = "KeyError"
                    /\ response' = except_Exception("KeyError")
                    /\ UNCHANGED answer
    /\ UNCHANGED <<debug_info, request, question, is_legal, nodes, i, all_results, rerank_log,
                   reranked_nodes, evidence>>
    /\ UNCHANGED process

\* Synthesize with one retry after a failed generation
Synthesize_Retry ==
    /\ pc = "synthesize"
    /\ calls' = Append(calls, "synthesize")
    /\ \E outcome \in GenerationOutcomes :
        LET body == _call_api(outcome)
        IN  /\ generated' = outcome.kind
            /\ IF "choices" \in DOMAIN body
               THEN /\ answer' = body.choices
                    /\ pc' = "respond"
                    /\ UNCHANGED <<raised, response>>
               ELSE IF "synthesize" \notin Range(calls)
               THEN /\ pc' = "synthesize"
                    /\ UNCHANGED <<answer, raised, response>>
               ELSE /\ raised' = "KeyError"
                    /\ response' = except_Exception("KeyError")
                    /\ pc' = "done"
                    /\ UNCHANGED answer
    /\ UNCHANGED <<debug_info, request, question, is_legal, nodes, i, all_results, rerank_log,
                   reranked_nodes, evidence>>
    /\ UNCHANGED process

\* RagFlow.answer lines 127-128, RagFlow.synthesize, QwenAILLM.chat: the
\* body without "choices" raises KeyError through answer into the handler
Synthesize ==
    /\ pc = "synthesize"
    /\ calls' = Append(calls, "synthesize")
    /\ \E outcome \in GenerationOutcomes :
        LET body == _call_api(outcome)
        IN  /\ generated' = outcome.kind
            /\ IF "choices" \in DOMAIN body
               THEN /\ answer' = body.choices
                    /\ pc' = "respond"
                    /\ UNCHANGED <<raised, response>>
               ELSE /\ raised' = "KeyError"
                    /\ response' = except_Exception("KeyError")
                    /\ pc' = "done"
                    /\ UNCHANGED answer
    /\ UNCHANGED <<debug_info, request, question, is_legal, nodes, i, all_results, rerank_log,
                   reranked_nodes, evidence>>
    /\ UNCHANGED process

\* Respond with the references taken from the unfiltered reranker output
Respond_UnfilteredReferences ==
    /\ pc = "respond"
    /\ \E substituted \in {SubThink(answer)} :
        response' = Ok([InitialResponse(is_legal, request.conversation_id) EXCEPT
                        !.answer = answer,
                        !.reply_text = strip(substituted),
                        !.thoughts = FindAllThink(answer),
                        !.references = process_nodes(reranked_nodes)])
    /\ pc' = "done"
    /\ UNCHANGED <<debug_info, request, question, is_legal, nodes, i, all_results, rerank_log,
                   reranked_nodes, evidence, generated, answer, raised, calls>>
    /\ UNCHANGED process

\* lines 203-214
Respond ==
    /\ pc = "respond"
    /\ \E substituted \in {SubThink(answer)} :
        response' = Ok([InitialResponse(is_legal, request.conversation_id) EXCEPT
                        !.answer = answer,
                        !.reply_text = strip(substituted),
                        !.thoughts = FindAllThink(answer),
                        !.references = process_nodes(evidence)])
    /\ pc' = "done"
    /\ UNCHANGED <<debug_info, request, question, is_legal, nodes, i, all_results, rerank_log,
                   reranked_nodes, evidence, generated, answer, raised, calls>>
    /\ UNCHANGED process

\* the response has left; the locals of the call are gone and the next
\* request can be served
Return ==
    /\ pc = "done"
    /\ pc' = "idle"
    /\ request' = NoRequest
    /\ question' = <<>>
    /\ is_legal' = FALSE
    /\ nodes' = <<>>
    /\ i' = 0
    /\ all_results' = <<>>
    /\ rerank_log' = <<>>
    /\ reranked_nodes' = <<>>
    /\ evidence' = <<>>
    /\ generated' = "none"
    /\ answer' = <<>>
    /\ raised' = "none"
    /\ response' = NoResponse
    /\ calls' = <<>>
    /\ debug_info' = NoDebugInfo
    /\ UNCHANGED process

Next ==
    \/ startup_event
    \/ Receive
    \/ Classify
    \/ Retrieve
    \/ Rerank
    \/ RerankBatch
    \/ RerankSort
    \/ Filter
    \/ Synthesize
    \/ Respond
    \/ Return

Spec == Init /\ [][Next]_vars

-----------------------------------------------------------------------------
(* Properties *)

Invoked(stage) == stage \in Range(calls)

\* the text contains a keyword of the classifier's table
ContainsKeyword(text) ==
    \E k \in 1..Len(legal_keywords) : Contains(text, legal_keywords[k].keyword)

\* RagFlow.rerank has returned for the current request
Filtered == pc \in {"synthesize", "respond"} \/ (pc = "done" /\ Invoked("rerank"))

\* the retriever returned normally for the current request
Retrieved == Invoked("retrieve") /\ raised # "RetrievalError"

\* the ChatResponse of the no-evidence terminal
IsNoEvidenceResponse ==
    /\ response.status_code = 200
    /\ response.body.answer = NoEvidenceMsg
    /\ response.body.reply_text = NoEvidenceMsg
    /\ response.body.is_legal = TRUE
    /\ response.body.references = <<>>
    /\ response.body.thoughts = <<>>

\* C1: a request whose question is empty after strip() is answered with
\* HTTP 400 and the detail "问题不能为空", not with HTTP 500, and none of
\* classify, retrieve, rerank, synthesize is invoked.
C1_EmptyQuestionIsClientError ==
    (pc = "done" /\ strip(request.question) = <<>>) =>
        /\ response.status_code = 400
        /\ response.detail = EmptyQuestionDetail
        /\ calls = <<>>

\* C2: once the classifier's verdict for a request is false, none of
\* retrieve, rerank (and its service call) and synthesize is invoked for it.
C2_ShortCircuit ==
    (Invoked("is_legal_question") /\ ~is_legal) =>
        /\ ~Invoked("retrieve")
        /\ ~Invoked("rerank")
        /\ ~Invoked("_call_dashscope_rerank")
        /\ ~Invoked("synthesize")
        /\ pc = "done"

C2_Witness == pc = "done" /\ Invoked("is_legal_question") /\ ~is_legal

C4_EvidenceAboveFloor ==
    /\ \A k \in 1..Len(evidence) : evidence[k].score > rerank_min_score
    /\ \A k \in 1..Len(response.body.references) :
            response.body.references[k].score > rerank_min_score
    /\ Filtered =>
            \A k \in 1..Len(reranked_nodes) :
                reranked_nodes[k].score = rerank_min_score =>
                    \A j \in 1..Len(evidence) : evidence[j].id # reranked_nodes[k].id

C4_Witness ==
    /\ pc = "done"
    /\ response.status_code = 200
    /\ response.body.references # <<>>
    /\ \E k \in 1..Len(reranked_nodes) : reranked_nodes[k].score = rerank_min_score

\* C5: the evidence set returned by rerank is sorted by score in descending
\* order, candidates of equal score in retrieval order, on every path,
\* the path through the reranker's exception handler included.
C5_EvidenceSortedStable ==
    \A k \in 1..(Len(evidence) - 1) :
        \/ evidence[k].score > evidence[k + 1].score
        \/ /\ evidence[k].score = evidence[k + 1].score
           /\ evidence[k].id < evidence[k + 1].id

\* every result the rerank service has returned so far is well formed
AllResultsFloatable ==
    \A b \in 1..Len(rerank_log) :
        \A p \in 1..Len(rerank_log[b].results) : rerank_log[b].results[p].floatable

\* C6: when the rerank service fails for one batch of a multi-batch
\* candidate set (the other batches being reranked normally), the candidates
\* of that batch are retained in the evidence set whatever their score, so
\* the failed batch is not silently dropped.
C6_FailedBatchRetained ==
    (/\ Filtered
     /\ Len(nodes) > batch_size
     /\ Len(nodes) <= top_n
     /\ AllResultsFloatable
     /\ Cardinality({b \in 1..Len(rerank_log) : rerank_log[b].kind = "error"}) = 1) =>
        \A b \in 1..Len(rerank_log) :
            rerank_log[b].kind = "error" =>
                \A p \in ((b - 1) * batch_size + 1)..Min(b * batch_size, Len(nodes)) :
                    \E k \in 1..Len(evidence) : evidence[k].id = nodes[p].id

\* C7: a failing index query is recovered as zero candidates: the request
\* ends with the no-evidence message as a normal response, not with a
\* system error.
C7_RetrievalFailureRecovered ==
    (pc = "done" /\ raised = "RetrievalError") => IsNoEvidenceResponse

\* C8 as stated: when retrieve returns an empty sequence the no-evidence
\* terminal is reached without invoking rerank / postprocess_nodes and
\* without invoking the synthesizer.
C8_RerankNotInvoked ==
    (pc = "done" /\ Retrieved /\ nodes = <<>>) =>
        /\ IsNoEvidenceResponse
        /\ ~Invoked("rerank")
        /\ ~Invoked("synthesize")

\* C8 amended: when retrieve returns an empty sequence, RagFlow.rerank and
\* postprocess_nodes are invoked and return the empty list at once; the
\* rerank service and the synthesizer are never called, and the request
\* ends in the no-evidence terminal.
C8_NoServiceCallOnEmptyRetrieval ==
    (Retrieved /\ nodes = <<>>) =>
        /\ ~Invoked("_call_dashscope_rerank")
        /\ ~Invoked("synthesize")
        /\ rerank_log = <<>>
        /\ generated = "none"
        /\ pc = "done" => (IsNoEvidenceResponse /\ Invoked("rerank"))

C8_Witness == pc = "done" /\ Retrieved /\ nodes = <<>> /\ Invoked("rerank")

\* C9: the synthesizer is invoked exactly when the evidence set after the
\* filter is non-empty; when it is empty the answer is the no-evidence
\* message and the caller gets HTTP 200 with is_legal true and empty
\* references and thoughts.
C9_SynthesizeIffEvidence ==
    /\ pc = "synthesize" => evidence # <<>>
    /\ (pc = "respond" \/ (pc = "done" /\ Invoked("rerank"))) =>
            (Invoked("synthesize") <=> evidence # <<>>)
    /\ (pc = "respond" /\ evidence = <<>>) => answer = NoEvidenceMsg
    /\ (pc = "done" /\ Invoked("rerank") /\ evidence = <<>>) => IsNoEvidenceResponse

C9_Witness ==
    /\ pc = "done"
    /\ reranked_nodes # <<>>
    /\ evidence = <<>>
    /\ rerank_log # <<>>
    /\ response.status_code = 200

\* C10: when the generation service fails (the evidence being non-empty) the
\* caller receives HTTP 500 with the generic detail: no ChatResponse, so
\* neither the no-evidence message nor an empty or partial answer.
C10_SynthesisFailureIsSystemError ==
    /\ generated # "none" => evidence # <<>>
    /\ generated = "error" => pc = "done"
    /\ (pc = "done" /\ generated = "error") =>
            /\ response.status_code = 500
            /\ response.detail = GenericErrorDetail
            /\ response.body = NoBody

C10_Witness == pc = "done" /\ generated = "error" /\ evidence # <<>>

-----------------------------------------------------------------------------
(* The tail of chat_with_assistant, lines 203-214, on the texts a language
   model can return: every concatenation of at most MaxPieces pieces, a piece
   being a marker, a fragment of a marker, a letter or a blank *)

MaxPieces == 5

Pieces == {OpenMark, CloseMark, <<"<", "t", "h", "i">>, <<"n", "k", ">">>, <<"a">>, <<" ">>}

RECURSIVE Flatten(_)
Flatten(ss) == IF ss = <<>> THEN <<>> ELSE Head(ss) \o Flatten(Tail(ss))

StripInputs == UNION {{Flatten(ps) : ps \in [1..n -> Pieces]} : n \in 0..MaxPieces}

\* the state in which ragflow.answer has returned the model's text for the
\* question of test_simple_legal_question, one candidate having been
\* retrieved, reranked and kept
InitStrip ==
    /\ pc = "respond"
    /\ question = <<"u52b3", "u52a8", "u5408", "u540c", "u5e94", "u8be5", "u5305",
                    "u542b", "u54ea", "u4e9b", "u5185", "u5bb9", "uff1f">>
    /\ request = [question |-> question, conversation_id |-> None]
    /\ is_legal = TRUE
    /\ nodes = <<[id |-> 1, score |-> 7]>>
    /\ i = batch_size
    /\ all_results = <<1>>
    /\ rerank_log = <<[kind |-> "ok",
                       results |-> <<[index |-> 0, relevance_score |-> 7,
                                      floatable |-> TRUE]>>]>>
    /\ reranked_nodes = nodes
    /\ evidence = nodes
    /\ generated = "ok"
    /\ answer \in StripInputs
    /\ raised = "none"
    /\ response = Ok(InitialResponse(FALSE, None))
    /\ calls = <<"is_legal_question", "retrieve", "rerank",
                 "_call_dashscope_rerank", "synthesize">>
    /\ debug_info = Legal_question_check(question)
    /\ ragflow = "ready"
    /\ runs = NoRuns
    /\ heap = NoHeap

NextStrip ==
    \/ Respond
    \/ Return

SpecStrip == InitStrip /\ [][NextStrip]_vars

\* s contains neither marker
MarkerFree(s) == Find(s, OpenMark) = 0 /\ Find(s, CloseMark) = 0

\* s contains a complete <think>...</think> segment
HasSegment(s) ==
    LET open == Find(s, OpenMark)
    IN  open # 0 /\ Find(Drop(s, open + Len(OpenMark) - 1), CloseMark) # 0

\* the response to a synthesized answer has been built
Synthesized == pc = "done" /\ generated = "ok" /\ response.status_code = 200

\* the texts X and Y of an answer that starts with a marker: X ends at the
\* first closing marker, Y is what follows it
FormX == LET rest == Drop(answer, Len(OpenMark))
         IN  SubSeq(rest, 1, Find(rest, CloseMark) - 1)

FormY == LET rest == Drop(answer, Len(OpenMark))
         IN  Drop(rest, Find(rest, CloseMark) + Len(CloseMark) - 1)

\* the answer is <think>X</think>Y for texts X and Y without markers
ThinkForm ==
    /\ Find(answer, OpenMark) = 1
    /\ Find(Drop(answer, Len(OpenMark)), CloseMark) # 0
    /\ MarkerFree(FormX)
    /\ MarkerFree(FormY)

RECURSIVE SumLen(_)
SumLen(ts) == IF ts = <<>> THEN 0 ELSE Len(Head(ts)) + SumLen(Tail(ts))

\* for an answer <think>X</think>Y, reply_text is Y trimmed and thoughts is [X]
C11_RoundTrip ==
    (Synthesized /\ ThinkForm) =>
        /\ answer = OpenMark \o FormX \o CloseMark \o FormY
        /\ response.body.reply_text = strip(FormY)
        /\ response.body.thoughts = <<FormX>>

\* thoughts holds inner texts of segments of the answer, in order of
\* occurrence: each is delimited by the markers in the answer and ends at
\* the first closing marker; reply_text and the segments account for the
\* whole answer up to the trimmed blanks; answer is the unstripped text
C11_ThoughtsAndAnswer ==
    Synthesized =>
        LET ts == response.body.thoughts
        IN  /\ response.body.answer = answer
            /\ \A k \in 1..Len(ts) :
                    /\ Find(ts[k], CloseMark) = 0
                    /\ Find(answer, OpenMark \o ts[k] \o CloseMark) # 0
            /\ Len(response.body.reply_text)
                    <= Len(answer) - SumLen(ts) - Len(ts) * (Len(OpenMark) + Len(CloseMark))
            /\ (ts = <<>>) = ~HasSegment(answer)

\* reply_text contains no complete <think>...</think> segment
C11_ReplyHasNoSegment == Synthesized => ~HasSegment(response.body.reply_text)

\* C11: for a synthesized answer of the form <think>X</think>Y, reply_text
\* is Y with the surrounding whitespace trimmed and thoughts is [X]; in
\* general reply_text contains no complete <think>...</think> segment,
\* thoughts lists the inner text of every such segment in order of
\* occurrence, and answer keeps the unstripped text.
C11_ThinkStripping ==
    /\ C11_RoundTrip
    /\ C11_ThoughtsAndAnswer
    /\ C11_ReplyHasNoSegment

-----------------------------------------------------------------------------
(* is_legal_question on texts of every length up to the cap of the length
   factor and beyond: a core followed by characters of no keyword *)

MaxPad == 80

\* 天, a character of no keyword
PadChar == "u5929"

RECURSIVE Pad(_, _)
Pad(core, n) == IF n = 0 THEN core ELSE Append(Pad(core, n - 1), PadChar)

\* the questions of test_various_legal_questions
VariousLegalQuestions == {
    <<"u516c", "u53f8", "u89e3", "u9664", "u52b3", "u52a8", "u5408", "u540c", "u9700", "u8981",
      "u652f", "u4ed8", "u591a", "u5c11", "u7ecf", "u6d4e", "u8865", "u507f", "uff1f">>,  \* 公司解除劳动合同需要支付多少经济补偿？
    <<"u8bd5", "u7528", "u671f", "u6700", "u957f", "u53ef", "u4ee5", "u7ea6", "u5b9a", "u591a",
      "u4e45", "uff1f">>,  \* 试用期最长可以约定多久？
    <<"u5de5", "u4f24", "u8ba4", "u5b9a", "u9700", "u8981", "u54ea", "u4e9b", "u6750", "u6599",
      "uff1f">>,  \* 工伤认定需要哪些材料？
    <<"u5e74", "u5047", "u5929", "u6570", "u5982", "u4f55", "u8ba1", "u7b97", "uff1f">>  \* 年假天数如何计算？
}

Cores == VariousLegalQuestions \cup TestQuestions \cup {
    <<>>,
    <<"u5de5", "u4f24">>,  \* 工伤 0.4
    <<"u5e74", "u5047">>,  \* 年假 0.2
    <<"u5e74", "u5047", "u4ea7", "u5047">>,  \* 年假产假 0.2 + 0.2
    <<"u8bd5", "u7528", "u671f">>,  \* 试用期 0.3
    <<"u52b3", "u52a8", "u6cd5">>,  \* 劳动法 0.5
    <<"u52b3", "u52a8", "u5408", "u540c">>,  \* 劳动合同 0.5
    <<"u52b3", "u52a8", "u5408", "u540c", "u6cd5">>,  \* 劳动合同法 0.5 + 0.5 (劳动合同)
    <<"u52b3", "u52a8", "u4e89", "u8bae">>  \* 劳动争议 0.5
}

ClassifierTexts == {Pad(core, n) : core \in Cores, n \in 0..MaxPad}

\* a text is about to be classified: api.py line 190 for a non-empty
\* question, main.py line 205 also for the empty text that a blank input
\* leaves after strip()
InitClassify ==
    /\ pc = "classify"
    /\ question \in ClassifierTexts
    /\ request = [question |-> question, conversation_id |-> None]
    /\ is_legal = FALSE
    /\ nodes = <<>>
    /\ i = 0
    /\ all_results = <<>>
    /\ rerank_log = <<>>
    /\ reranked_nodes = <<>>
    /\ evidence = <<>>
    /\ generated = "none"
    /\ answer = <<>>
    /\ raised = "none"
    /\ response = NoResponse
    /\ calls = <<>>
    /\ debug_info = NoDebugInfo
    /\ ragflow = "ready"
    /\ runs = NoRuns
    /\ heap = NoHeap

NextClassify ==
    \/ Classify
    \/ Return

SpecClassify == InitClassify /\ [][NextClassify]_vars

\* is_legal_question has returned for the current request
Classified == Invoked("is_legal_question")

\* C12: the dynamic threshold 0.35 + min(len(text)/10*0.02, 0.10) is
\* monotonically non-decreasing in len(text), equals 0.35 for the empty text
\* and never exceeds 0.45; it is constant at 0.45 for every length >= 50.
C12_ThresholdMonotoneBounded ==
    Classified =>
        /\ debug_info.length = Len(question)
        /\ debug_info.dynamic_threshold >= 350
        /\ debug_info.dynamic_threshold <= 450
        /\ (question = <<>>) => (debug_info.dynamic_threshold = 350)
        /\ (Len(question) >= 50) => (debug_info.dynamic_threshold = 450)
        /\ \A n \in 0..Len(question) :
                dynamic_threshold(Pad(<<>>, n)) <= debug_info.dynamic_threshold

C12_Witness ==
    /\ Classified
    /\ Len(question) > 50
    /\ debug_info.dynamic_threshold = 450
    /\ dynamic_threshold(Pad(<<>>, 49)) < 450

\* C13: the verdict is exactly total_score >= dynamic_threshold, the
\* boundary included: a question whose total keyword score equals its
\* dynamic threshold (a single weight-0.4 keyword in a 25-character
\* question) is classified in-domain.
C13_VerdictInclusive ==
    Classified =>
        /\ is_legal = (debug_info.total_score >= debug_info.dynamic_threshold)
        /\ debug_info.is_legal = is_legal
        /\ debug_info.total_score = scan(question, 1, 0, {}).total_score
        /\ (debug_info.total_score = debug_info.dynamic_threshold) => is_legal
        /\ (pc = "done" /\ response.status_code = 200) => (response.body.is_legal = is_legal)

\* 工伤 followed by 23 characters of no keyword
C13_Witness ==
    /\ Classified
    /\ Len(question) = 25
    /\ debug_info.matched_keywords = {<<"u5de5", "u4f24">>}
    /\ debug_info.total_score = 400
    /\ debug_info.dynamic_threshold = 400
    /\ is_legal

\* the keywords of weight 0.5
TopKeywords == {legal_keywords[k].keyword : k \in {j \in 1..Len(legal_keywords) : legal_keywords[j].weight = 500}}

\* C14: every question that contains at least one weight-0.5 keyword (劳动法,
\* 劳动合同, 劳动合同法, 劳动争议) is classified is_legal = true whatever
\* its length, and the pipeline proceeds to retrieval.
C14_TopKeywordInDomain ==
    /\ TopKeywords = {<<"u52b3", "u52a8", "u6cd5">>, <<"u52b3", "u52a8", "u5408", "u540c">>,
                      <<"u52b3", "u52a8", "u5408", "u540c", "u6cd5">>,
                      <<"u52b3", "u52a8", "u4e89", "u8bae">>}
    /\ (Classified /\ \E kw \in TopKeywords : Contains(question, kw)) =>
            /\ is_legal
            /\ pc = "retrieve" \/ Invoked("retrieve")

\* 劳动法 in a text longer than the cap of the length factor
C14_Witness ==
    /\ pc = "retrieve"
    /\ Contains(question, <<"u52b3", "u52a8", "u6cd5">>)
    /\ Len(question) > 75
    /\ debug_info.total_score = 500
    /\ is_legal

\* C15: a short labor-law question that mentions at least one keyword of
\* the classifier's table, whatever that keyword's weight, is classified
\* is_legal = true: in particular each of the four questions of
\* test_various_legal_questions yields is_legal = true.
C15_KeywordQuestionInDomain ==
    (/\ Classified
     /\ ContainsKeyword(question)
     /\ \E q \in VariousLegalQuestions : Len(question) <= Len(q)) => is_legal

-----------------------------------------------------------------------------
(* Order of the stages *)

\* the stages of the orchestrator, in the order of chat_with_assistant and
\* RagFlow.answer
Stages == <<"is_legal_question", "retrieve", "rerank", "synthesize">>

\* the stage invocations of the current request, the calls of the rerank
\* service made inside the rerank stage left out
StageCalls == SelectSeq(calls, LAMBDA c : c # "_call_dashscope_rerank")

IsPrefix(s, t) == Len(s) <= Len(t) /\ s = SubSeq(t, 1, Len(s))

Ids(ns) == {ns[p].id : p \in 1..Len(ns)}

\* C17: for each request the sequence of stage invocations is a prefix of
\* [classify, retrieve, rerank, synthesize]: no stage starts before the
\* previous one has completed, each stage's input is the previous stage's
\* output, and no stage is invoked more than once (no retries in the
\* orchestrator).
C17_StagesInOrder ==
    /\ IsPrefix(StageCalls, Stages)
    \* a stage is entered with exactly the stages before it invoked
    /\ (pc = "classify") => (calls = <<>>)
    /\ (pc = "retrieve") => (StageCalls = SubSeq(Stages, 1, 1) /\ is_legal)
    /\ (pc = "rerank") => (StageCalls = SubSeq(Stages, 1, 2) /\ Retrieved)
    /\ (pc \in {"batch", "filter", "synthesize"}) => (StageCalls = SubSeq(Stages, 1, 3))
    /\ (pc = "respond") => (StageCalls = SubSeq(Stages, 1, IF evidence = <<>> THEN 3 ELSE 4))
    \* the rerank service is called inside the rerank stage only
    /\ \A p \in 1..Len(calls) :
            (calls[p] = "_call_dashscope_rerank") =>
                /\ \E q \in 1..(p - 1) : calls[q] = "rerank"
                /\ \A q \in 1..(p - 1) : calls[q] # "synthesize"
    \* rerank works on the retrieved candidates, the evidence handed to the
    \* synthesizer and to the references is what rerank returned
    /\ Ids(reranked_nodes) \subseteq Ids(nodes)
    /\ Ids(evidence) \subseteq Ids(reranked_nodes)
    /\ Invoked("synthesize") => (evidence # <<>> /\ Filtered)

C17_Witness ==
    /\ pc = "done"
    /\ calls = <<"is_legal_question", "retrieve", "rerank", "_call_dashscope_rerank",
                 "_call_dashscope_rerank", "synthesize">>
    /\ generated = "error"

-----------------------------------------------------------------------------
(* Termination of a request *)

\* the steps of the worker once a request is in; the worker is a single
\* thread that runs on, and the external capabilities are taken to return
Serve ==
    \/ Classify
    \/ Retrieve
    \/ Rerank
    \/ RerankBatch
    \/ RerankSort
    \/ Filter
    \/ Synthesize
    \/ Respond

FairSpec == Spec /\ WF_vars(Serve)

\* the terminal outcomes of a request
InputRejected == raised = "HTTPException(400)" /\ calls = <<>> /\ response.status_code >= 400

OutOfDomainTerminal ==
    /\ raised = "none"
    /\ calls = <<"is_legal_question">>
    /\ ~is_legal
    /\ response = Ok(InitialResponse(FALSE, request.conversation_id))

NoEvidenceTerminal ==
    /\ raised = "none"
    /\ StageCalls = SubSeq(Stages, 1, 3)
    /\ evidence = <<>>
    /\ IsNoEvidenceResponse

SynthesizedTerminal ==
    /\ raised = "none"
    /\ StageCalls = Stages
    /\ evidence # <<>>
    /\ generated = "ok"
    /\ response.status_code = 200
    /\ response.body.answer = answer
    /\ response.body.is_legal

SystemErrorTerminal ==
    /\ raised \in {"NameError", "RetrievalError", "KeyError"}
    /\ response = except_Exception(raised)
    /\ StageCalls = (CASE raised = "NameError" -> SubSeq(Stages, 1, 1)
                       [] raised = "RetrievalError" -> SubSeq(Stages, 1, 2)
                       [] raised = "KeyError" -> Stages)

Terminals ==
    <<InputRejected, OutOfDomainTerminal, NoEvidenceTerminal, SynthesizedTerminal,
      SystemErrorTerminal>>

\* the per-request state machine, as steps of the position of the worker
Transitions == {
    <<"idle", "idle">>,
    <<"idle", "classify">>, <<"idle", "done">>,
    <<"classify", "retrieve">>, <<"classify", "done">>,
    <<"retrieve", "rerank">>, <<"retrieve", "done">>,
    <<"rerank", "batch">>, <<"rerank", "filter">>,
    <<"batch", "batch">>, <<"batch", "filter">>,
    <<"filter", "synthesize">>, <<"filter", "respond">>,
    <<"synthesize", "respond">>, <<"synthesize", "done">>,
    <<"respond", "done">>,
    <<"done", "idle">>
}

IsTransition(from, to) == <<from, to>> \in Transitions

\* C18: every request follows the per-request state machine and ends in
\* exactly one terminal outcome: input rejected, out-of-domain, no-evidence,
\* synthesized, or a propagated system error; provided the external
\* capabilities return, every request eventually reaches a terminal, and no
\* stage runs after a terminal has been reached.
C18_OneTerminalReached ==
    /\ [][IsTransition(pc, pc')]_vars
    /\ [](pc = "done" => Cardinality({k \in 1..Len(Terminals) : Terminals[k]}) = 1)
    /\ [](pc # "done" => response = NoResponse)
    /\ (pc \notin {"idle", "done"}) ~> (pc = "done")
    /\ [][pc = "done" => (pc' = "idle" /\ calls' = <<>> /\ response' = NoResponse)]_vars

C18_Witness == pc = "done" /\ SynthesizedTerminal /\ Len(rerank_log) = 2

-----------------------------------------------------------------------------
(* Attribution of the rerank scores, truncation *)

\* C19: when candidates are reranked in batches, every candidate is assigned
\* the relevance score that the rerank service returned for that candidate's
\* own document index within its batch (results are mapped back through the
\* index, not paired by position in the returned list).
C19_ScoresByDocumentIndex ==
    (Filtered /\ AllResultsFloatable) =>
        \A b \in 1..Len(rerank_log) :
            \A p \in 1..Len(rerank_log[b].results) :
                LET result == rerank_log[b].results[p]
                IN  nodes[(b - 1) * batch_size + result.index + 1].score
                        = result.relevance_score

\* the list that _postprocess_nodes cuts to top_n: all_results after the
\* global sort, or nodes on the early return and in the exception handler
Untruncated ==
    IF nodes = <<>> \/ ~AllResultsFloatable THEN nodes
    ELSE LET score == [p \in 1..Len(nodes) |-> nodes[p].score]
             sorted == SortDesc(all_results, score)
         IN  [k \in 1..Len(sorted) |-> nodes[sorted[k]]]

\* C20: the evidence set returned by rerank is the sorted sequence with the
\* below-floor candidates removed, truncated to top_n: it has at most top_n
\* elements, and the code's order of operations (truncate to top_n inside
\* the reranker, then apply the floor filter in RagFlow.rerank) yields the
\* same set as filtering first and truncating afterwards.
C20_TruncateFilterCommute ==
    Filtered =>
        /\ Len(evidence) <= top_n
        /\ reranked_nodes = Truncate(Untruncated)
        /\ evidence = filtered_nodes(Truncate(Untruncated))
        /\ evidence = Truncate(filtered_nodes(Untruncated))

-----------------------------------------------------------------------------
(* Provenance of the scores *)

\* line 104 has run for the candidate at position p of nodes: its batch
\* has been answered, and the result at the candidate's position in the
\* batch was reached by the zip loop before any result that float() rejects
ScoredByService(p) ==
    \E b \in 1..Len(rerank_log) :
        LET offset == (b - 1) * batch_size
            rerank_results == _call_dashscope_rerank(rerank_log[b])
            z == Min(Min(batch_size, Len(nodes) - offset), Len(rerank_results))
            bad == FirstBad(rerank_results, z)
            upd == IF bad = 0 THEN z ELSE bad - 1
        IN  /\ p \in (offset + 1)..(offset + upd)
            /\ nodes[p].score = rerank_results[p - offset].relevance_score

\* C21: after rerank, every candidate that reaches the floor filter and
\* every candidate of the evidence set carries a score in [0, 1] that the
\* rerank service produced for this query; none still carries the score the
\* retriever gave it, the reranker's exception handler and its early return
\* included.
C21_EvidenceCarriesRerankScore ==
    Filtered =>
        /\ \A k \in 1..Len(reranked_nodes) :
                /\ reranked_nodes[k].score \in 0..10
                /\ ScoredByService(reranked_nodes[k].id)
        /\ \A k \in 1..Len(evidence) :
                /\ evidence[k].score \in 0..10
                /\ ScoredByService(evidence[k].id)

-----------------------------------------------------------------------------
(* The conversation identifier *)

\* the ChatResponse of lines 191-211 as verdict, answer and evidence alone
\* determine it, the conversation identifier left out
ResponseWithoutId ==
    IF ~is_legal THEN InitialResponse(FALSE, None)
    ELSE [InitialResponse(TRUE, None) EXCEPT
            !.answer = answer,
            !.reply_text = strip(SubThink(answer)),
            !.thoughts = FindAllThink(answer),
            !.references = process_nodes(evidence)]

\* C22: the conversation identifier is an opaque token: every normal
\* response (in-domain, out-of-domain or no-evidence) carries the
\* conversation_id of its request, None when the request had none; the
\* verdict is the classifier's verdict for the trimmed question alone, and
\* the rest of the response is what verdict, answer and evidence determine
\* without the identifier.
C22_ConversationIdOpaque ==
    /\ Classified => (is_legal = is_legal_question(strip(request.question)))
    /\ (pc = "done" /\ response.status_code = 200) =>
            /\ response.body.conversation_id = request.conversation_id
            /\ [response.body EXCEPT !.conversation_id = None] = ResponseWithoutId

C22_Witness ==
    /\ pc = "done"
    /\ request.conversation_id = "test_conv_123"
    /\ response.status_code = 200
    /\ response.body.conversation_id = "test_conv_123"
    /\ response.body.is_legal
    /\ response.body.references # <<>>

-----------------------------------------------------------------------------
(* The dedup check of the classifier *)

\* the entries of the table whose keyword occurs in the text
Occurring(text) ==
    {k \in 1..Len(legal_keywords) : Contains(text, legal_keywords[k].keyword)}

RECURSIVE SumWeights(_)
SumWeights(ks) ==
    IF ks = {} THEN 0
    ELSE LET k == CHOOSE j \in ks : TRUE
         IN  legal_keywords[k].weight + SumWeights(ks \ {k})

-----------------------------------------------------------------------------
(* The threshold against the matched score *)

\* the question ends with n characters of no keyword
PaddedBy(n) ==
    /\ n <= Len(question)
    /\ \A p \in (Len(question) - n + 1)..Len(question) : question[p] = PadChar

\* the question before its last n characters were appended
Shorter(n) == SubSeq(question, 1, Len(question) - n)

\* the one matched keyword has weight 0.4
OnlyWeight400 ==
    /\ Cardinality(debug_info.matched_keywords) = 1
    /\ \E k \in 1..Len(legal_keywords) :
            /\ legal_keywords[k].keyword \in debug_info.matched_keywords
            /\ legal_keywords[k].weight = 400

-----------------------------------------------------------------------------
(* The Streamlit front end, main.py: its own is_legal_question and the tail
   of run() *)

\* the table of main.py with the weight of 工伤 lowered to 0.3
main_legal_keywords_drifted == <<
    [keyword |-> <<"u52b3", "u52a8", "u6cd5">>, weight |-> 500],  \* 劳动法: 0.5
    [keyword |-> <<"u52b3", "u52a8", "u5408", "u540c">>, weight |-> 500],  \* 劳动合同: 0.5
    [keyword |-> <<"u52b3", "u52a8", "u5408", "u540c", "u6cd5">>, weight |-> 500],  \* 劳动合同法: 0.5
    [keyword |-> <<"u52b3", "u52a8", "u4e89", "u8bae">>, weight |-> 500],  \* 劳动争议: 0.5
    [keyword |-> <<"u5de5", "u8d44">>, weight |-> 400],  \* 工资: 0.4
    [keyword |-> <<"u52a0", "u73ed", "u8d39">>, weight |-> 400],  \* 加班费: 0.4
    [keyword |-> <<"u5de5", "u4f24">>, weight |-> 300],  \* 工伤: 0.3
    [keyword |-> <<"u8d54", "u507f">>, weight |-> 400],  \* 赔偿: 0.4
    [keyword |-> <<"u7ecf", "u6d4e", "u8865", "u507f">>, weight |-> 400],  \* 经济补偿: 0.4
    [keyword |-> <<"u89e3", "u9664", "u5408", "u540c">>, weight |-> 400],  \* 解除合同: 0.4
    [keyword |-> <<"u7ec8", "u6b62", "u5408", "u540c">>, weight |-> 400],  \* 终止合同: 0.4
    [keyword |-> <<"u7528", "u4eba", "u5355", "u4f4d">>, weight |-> 300],  \* 用人单位: 0.3
    [keyword |-> <<"u52b3", "u52a8", "u8005">>, weight |-> 300],  \* 劳动者: 0.3
    [keyword |-> <<"u96c7", "u4e3b">>, weight |-> 300],  \* 雇主: 0.3
    [keyword |-> <<"u5458", "u5de5">>, weight |-> 300],  \* 员工: 0.3
    [keyword |-> <<"u804c", "u5de5">>, weight |-> 300],  \* 职工: 0.3
    [keyword |-> <<"u793e", "u4fdd">>, weight |-> 300],  \* 社保: 0.3
    [keyword |-> <<"u793e", "u4f1a", "u4fdd", "u9669">>, weight |-> 300],  \* 社会保险: 0.3
    [keyword |-> <<"u516c", "u79ef", "u91d1">>, weight |-> 300],  \* 公积金: 0.3
    [keyword |-> <<"u4e94", "u9669", "u4e00", "u91d1">>, weight |-> 300],  \* 五险一金: 0.3
    [keyword |-> <<"u8bd5", "u7528", "u671f">>, weight |-> 300],  \* 试用期: 0.3
    [keyword |-> <<"u7ade", "u4e1a", "u9650", "u5236">>, weight |-> 300],  \* 竞业限制: 0.3
    [keyword |-> <<"u4fdd", "u5bc6", "u534f", "u8bae">>, weight |-> 300],  \* 保密协议: 0.3
    [keyword |-> <<"u52b3", "u52a1", "u6d3e", "u9063">>, weight |-> 300],  \* 劳务派遣: 0.3
    [keyword |-> <<"u5e74", "u5047">>, weight |-> 200],  \* 年假: 0.2
    [keyword |-> <<"u4ea7", "u5047">>, weight |-> 200],  \* 产假: 0.2
    [keyword |-> <<"u75c5", "u5047">>, weight |-> 200],  \* 病假: 0.2
    [keyword |-> <<"u5a5a", "u5047">>, weight |-> 200],  \* 婚假: 0.2
    [keyword |-> <<"u4e27", "u5047">>, weight |-> 200],  \* 丧假: 0.2
    [keyword |-> <<"u5de5", "u4f5c", "u65f6", "u95f4">>, weight |-> 200],  \* 工作时间: 0.2
    [keyword |-> <<"u4f11", "u606f", "u4f11", "u5047">>, weight |-> 200],  \* 休息休假: 0.2
    [keyword |-> <<"u5de5", "u4f5c", "u73af", "u5883">>, weight |-> 200],  \* 工作环境: 0.2
    [keyword |-> <<"u52b3", "u52a8", "u4ef2", "u88c1">>, weight |-> 300],  \* 劳动仲裁: 0.3
    [keyword |-> <<"u6cd5", "u9662", "u8d77", "u8bc9">>, weight |-> 300],  \* 法院起诉: 0.3
    [keyword |-> <<"u8c03", "u89e3">>, weight |-> 200]  \* 调解: 0.2
>>

\* legal_keywords of main.py, in the dict's insertion order
main_legal_keywords == <<
    [keyword |-> <<"u52b3", "u52a8", "u6cd5">>, weight |-> 500],  \* 劳动法: 0.5
    [keyword |-> <<"u52b3", "u52a8", "u5408", "u540c">>, weight |-> 500],  \* 劳动合同: 0.5
    [keyword |-> <<"u52b3", "u52a8", "u5408", "u540c", "u6cd5">>, weight |-> 500],  \* 劳动合同法: 0.5
    [keyword |-> <<"u52b3", "u52a8", "u4e89", "u8bae">>, weight |-> 500],  \* 劳动争议: 0.5
    [keyword |-> <<"u5de5", "u8d44">>, weight |-> 400],  \* 工资: 0.4
    [keyword |-> <<"u52a0", "u73ed", "u8d39">>, weight |-> 400],  \* 加班费: 0.4
    [keyword |-> <<"u5de5", "u4f24">>, weight |-> 400],  \* 工伤: 0.4
    [keyword |-> <<"u8d54", "u507f">>, weight |-> 400],  \* 赔偿: 0.4
    [keyword |-> <<"u7ecf", "u6d4e", "u8865", "u507f">>, weight |-> 400],  \* 经济补偿: 0.4
    [keyword |-> <<"u89e3", "u9664", "u5408", "u540c">>, weight |-> 400],  \* 解除合同: 0.4
    [keyword |-> <<"u7ec8", "u6b62", "u5408", "u540c">>, weight |-> 400],  \* 终止合同: 0.4
    [keyword |-> <<"u7528", "u4eba", "u5355", "u4f4d">>, weight |-> 300],  \* 用人单位: 0.3
    [keyword |-> <<"u52b3", "u52a8", "u8005">>, weight |-> 300],  \* 劳动者: 0.3
    [keyword |-> <<"u96c7", "u4e3b">>, weight |-> 300],  \* 雇主: 0.3
    [keyword |-> <<"u5458", "u5de5">>, weight |-> 300],  \* 员工: 0.3
    [keyword |-> <<"u804c", "u5de5">>, weight |-> 300],  \* 职工: 0.3
    [keyword |-> <<"u793e", "u4fdd">>, weight |-> 300],  \* 社保: 0.3
    [keyword |-> <<"u793e", "u4f1a", "u4fdd", "u9669">>, weight |-> 300],  \* 社会保险: 0.3
    [keyword |-> <<"u516c", "u79ef", "u91d1">>, weight |-> 300],  \* 公积金: 0.3
    [keyword |-> <<"u4e94", "u9669", "u4e00", "u91d1">>, weight |-> 300],  \* 五险一金: 0.3
    [keyword |-> <<"u8bd5", "u7528", "u671f">>, weight |-> 300],  \* 试用期: 0.3
    [keyword |-> <<"u7ade", "u4e1a", "u9650", "u5236">>, weight |-> 300],  \* 竞业限制: 0.3
    [keyword |-> <<"u4fdd", "u5bc6", "u534f", "u8bae">>, weight |-> 300],  \* 保密协议: 0.3
    [keyword |-> <<"u52b3", "u52a1", "u6d3e", "u9063">>, weight |-> 300],  \* 劳务派遣: 0.3
    [keyword |-> <<"u5e74", "u5047">>, weight |-> 200],  \* 年假: 0.2
    [keyword |-> <<"u4ea7", "u5047">>, weight |-> 200],  \* 产假: 0.2
    [keyword |-> <<"u75c5", "u5047">>, weight |-> 200],  \* 病假: 0.2
    [keyword |-> <<"u5a5a", "u5047">>, weight |-> 200],  \* 婚假: 0.2
    [keyword |-> <<"u4e27", "u5047">>, weight |-> 200],  \* 丧假: 0.2
    [keyword |-> <<"u5de5", "u4f5c", "u65f6", "u95f4">>, weight |-> 200],  \* 工作时间: 0.2
    [keyword |-> <<"u4f11", "u606f", "u4f11", "u5047">>, weight |-> 200],  \* 休息休假: 0.2
    [keyword |-> <<"u5de5", "u4f5c", "u73af", "u5883">>, weight |-> 200],  \* 工作环境: 0.2
    [keyword |-> <<"u52b3", "u52a8", "u4ef2", "u88c1">>, weight |-> 300],  \* 劳动仲裁: 0.3
    [keyword |-> <<"u6cd5", "u9662", "u8d77", "u8bc9">>, weight |-> 300],  \* 法院起诉: 0.3
    [keyword |-> <<"u8c03", "u89e3">>, weight |-> 200]  \* 调解: 0.2
>>

\* main.py lines 155-157
main_dynamic_threshold(text) ==
    LET length_factor == IF 2 * Len(text) < 100 THEN 2 * Len(text) ELSE 100
    IN  350 + length_factor

\* main.py lines 160-168, from entry k on
RECURSIVE main_scan(_, _, _, _)
main_scan(text, k, total_score, matched_keywords) ==
    IF k > Len(main_legal_keywords)
    THEN [total_score |-> total_score, matched_keywords |-> matched_keywords]
    ELSE LET keyword == main_legal_keywords[k].keyword
             weight == main_legal_keywords[k].weight
         IN  IF /\ Contains(text, keyword)
                /\ ~ \E kw \in Range(split(keyword)) : kw \in matched_keywords
             THEN main_scan(text, k + 1, total_score + weight, matched_keywords \cup {keyword})
             ELSE main_scan(text, k + 1, total_score, matched_keywords)

\* is_legal_question of main.py
main_is_legal_question(text) ==
    main_scan(text, 1, 0, {}).total_score >= main_dynamic_threshold(text)

\* assistant_msg of run() once ragflow.answer has returned content and the
\* reference nodes: main.py lines 208-211
assistant_msg(content, reference_nodes) ==
    [content |-> content,
     reference_nodes |-> reference_nodes,
     reply_text |-> strip(SubThink(content)),
     think_text |-> FindAllThink(content)]

\* a text about to be classified, or an answer about to be stripped
InitFrontEnds == InitClassify \/ InitStrip

NextFrontEnds ==
    \/ Classify
    \/ Respond
    \/ Return

SpecFrontEnds == InitFrontEnds /\ [][NextFrontEnds]_vars

\* C29: the two front ends route identically: for every question text the
\* is_legal_question of the HTTP API and the one of the Streamlit front end
\* return the same verdict (same keyword table, same threshold, same score),
\* and both strip the reasoning segments of the pipeline's answer the same
\* way.
C29_FrontEndsAgree ==
    /\ main_legal_keywords = legal_keywords
    /\ Classified =>
            /\ main_is_legal_question(question) = is_legal
            /\ main_dynamic_threshold(question) = debug_info.dynamic_threshold
            /\ main_scan(question, 1, 0, {}).total_score = debug_info.total_score
    /\ Synthesized =>
            /\ response.body.answer = assistant_msg(answer, evidence).content
            /\ response.body.reply_text = assistant_msg(answer, evidence).reply_text
            /\ response.body.thoughts = assistant_msg(answer, evidence).think_text

\* both front ends take a 25-character question with 工伤 as in-domain
C29_Witness ==
    /\ Classified
    /\ Len(question) = 25
    /\ debug_info.matched_keywords = {<<"u5de5", "u4f24">>}
    /\ is_legal
    /\ main_is_legal_question(question)

-----------------------------------------------------------------------------
(* References of a response *)

\* a ChatResponse for a question that went through ragflow.answer
Answered == pc = "done" /\ response.status_code = 200 /\ Invoked("rerank")

\* C30: for every synthesized or no-evidence response, references
\* corresponds one-to-one and in the same order to the evidence set returned
\* by answer (references[k] carries the chunk, that is title, source file,
\* law name and text, and the score of evidence[k]), so references is
\* non-empty exactly when the answer was produced by the synthesizer; and
\* is_legal in a response always equals the classifier's verdict for the
\* trimmed question.
C30_ReferencesMirrorEvidence ==
    /\ (pc = "done" /\ response.status_code = 200) =>
            response.body.is_legal = is_legal_question(strip(request.question))
    /\ Answered =>
            /\ Len(response.body.references) = Len(evidence)
            /\ \A k \in 1..Len(evidence) :
                    /\ response.body.references[k].chunk = evidence[k].id
                    /\ response.body.references[k].score = evidence[k].score
            /\ (response.body.references # <<>>) <=>
                    (Invoked("synthesize") /\ generated = "ok")
            /\ (response.body.references = <<>>) <=>
                    (response.body.answer = NoEvidenceMsg /\ generated = "none")

\* two references, in the order of the evidence set, which is not the order
\* of retrieval
C30_Witness ==
    /\ Answered
    /\ Len(response.body.references) >= 2
    /\ response.body.references[1].chunk > response.body.references[2].chunk
    /\ response.body.references[1].score > response.body.references[2].score

-----------------------------------------------------------------------------
(* The rerank step against a service that may answer a batch with fewer
   results than documents *)

\* what the POST can do for a batch of n documents when the service may
\* also return only the m most relevant results, m < n (none at all for
\* m = 0, the branch of lines 69-71)
ShortServiceOutcomes ==
    [n \in 1..batch_size |->
        ServiceOutcomes[n] \cup
        {[kind |-> "ok", results |-> SubSeq(ServiceResults(rel, 0), 1, m)] :
            rel \in [1..n -> RerankScores], m \in 0..(n - 1)}]

ShortRerankServiceOutcomes(n) == ShortServiceOutcomes[n]

RerankBatchShort == RerankBatchOn([n \in 1..batch_size |-> ShortRerankServiceOutcomes(n)])

\* RagFlow.retrieve has returned the candidates for the question of
\* test_simple_legal_question and RagFlow.rerank is about to be called
InitRerank ==
    /\ pc = "rerank"
    /\ question = <<"u52b3", "u52a8", "u5408", "u540c", "u5e94", "u8be5", "u5305",
                    "u542b", "u54ea", "u4e9b", "u5185", "u5bb9", "uff1f">>
    /\ request = [question |-> question, conversation_id |-> None]
    /\ is_legal = TRUE
    /\ nodes \in {outcome.nodes : outcome \in {o \in RetrieverOutcomes : o.kind = "ok"}}
    /\ i = 0
    /\ all_results = <<>>
    /\ rerank_log = <<>>
    /\ reranked_nodes = <<>>
    /\ evidence = <<>>
    /\ generated = "none"
    /\ answer = <<>>
    /\ raised = "none"
    /\ response = NoResponse
    /\ calls = <<"is_legal_question", "retrieve">>
    /\ debug_info = Legal_question_check(question)
    /\ ragflow = "ready"
    /\ runs = NoRuns
    /\ heap = NoHeap

NextRerank ==
    \/ Rerank
    \/ RerankBatchShort
    \/ RerankSort
    \/ Filter

SpecRerank == InitRerank /\ [][NextRerank]_vars

-----------------------------------------------------------------------------
(* Membership of the reranker's output *)

\* the rerank service returned a result for the candidate at position p of
\* nodes: its batch was answered with an item whose index is the
\* candidate's place in the batch
HasResult(p) ==
    \E b \in 1..Len(rerank_log) :
        \E q \in 1..Len(rerank_log[b].results) :
            (b - 1) * batch_size + rerank_log[b].results[q].index + 1 = p

NoDuplicates(ns) ==
    \A j, k \in 1..Len(ns) : (ns[j].id = ns[k].id) => (j = k)

\* C27: the rerank step never invents or duplicates evidence: on every path
\* its output contains only candidates of the retriever's output for the
\* same request, each at most once; and a candidate for which the rerank
\* service returned no result (fewer results than documents in the batch,
\* or an empty list after an API error) is absent from the output.
C27_NoInventedEvidence ==
    Filtered =>
        /\ Ids(reranked_nodes) \subseteq Ids(nodes)
        /\ Ids(evidence) \subseteq Ids(nodes)
        /\ NoDuplicates(reranked_nodes)
        /\ NoDuplicates(evidence)
        /\ \A p \in 1..Len(nodes) :
                ~HasResult(p) =>
                    /\ nodes[p].id \notin Ids(reranked_nodes)
                    /\ nodes[p].id \notin Ids(evidence)

-----------------------------------------------------------------------------
(* What the caller can receive *)

\* the exceptions that can be raised inside the try block of the handler
Raisable == {"HTTPException(400)", "NameError", "RetrievalError", "KeyError"}

-----------------------------------------------------------------------------
(* Overlapping requests on the one RagFlow *)
(* startup_event binds one RagFlow for the whole process and main.py gets  *)
(* the same one from the @singleton in every session, so that every call   *)
(* goes through the same retriever, reranker and LLM objects.  The calls   *)
(* below may interleave between any two stages, which covers a server that *)
(* runs the handlers one after the other as well as sessions in threads.   *)
(* A NodeWithScore is an object on the heap and a list holds addresses:    *)
(* `node.score = ...` writes the object, whoever else refers to it.        *)

\* the variables of the single worker
worker == <<pc, request, question, is_legal, nodes, i, all_results, rerank_log,
            reranked_nodes, evidence, generated, answer, raised, response, calls,
            debug_info>>

\* the retriever raises, finds nothing, or finds one node more than a batch
\* of the reranker takes, all of them above rerank_min_score
RunRetrieverOutcomes ==
    {o \in RetrieverOutcomes :
        o.kind = "ok" =>
            /\ Len(o.nodes) \in {0, batch_size + 1}
            /\ \A k \in 1..Len(o.nodes) : o.nodes[k].score > rerank_min_score}

\* the rerank service fails, or scores every document below or above
\* rerank_min_score, the last score possibly one that float() rejects
RunServiceOutcomes ==
    [n \in 1..batch_size |->
        {o \in ServiceOutcomes[n] :
            o.kind = "ok" =>
                \A p \in 1..n :
                    /\ o.results[p].floatable \/ p = n
                    /\ o.results[p].floatable =>
                            o.results[p].relevance_score \in {rerank_min_score - 1,
                                                              rerank_min_score + 2}}]

\* the objects a list of addresses refers to, as they are now
Deref(as) == [k \in 1..Len(as) |-> heap[as[k]]]

\* the ChatResponse of lines 191-196 after the updates of lines 208-211
ChatResponse(verdict, conversation_id, text, references) ==
    [InitialResponse(verdict, conversation_id) EXCEPT
        !.answer = text,
        !.reply_text = strip(SubThink(text)),
        !.thoughts = FindAllThink(text),
        !.references = process_nodes(references)]

\* request r arrives: lines 183-185
ReceiveIn(r) ==
    /\ runs[r].pc = "idle"
    /\ \A s \in 1..(r - 1) : runs[s].pc # "idle"
    /\ \E q \in Questions, cid \in ConversationIds :
        runs' = [runs EXCEPT ![r] =
            [NoRun EXCEPT
                !.request = [question |-> q, conversation_id |-> cid],
                !.question = strip(q),
                !.raised = IF strip(q) = <<>> THEN "HTTPException(400)" ELSE "none",
                !.response = IF strip(q) = <<>>
                             THEN except_Exception(HTTPException(400, EmptyQuestionDetail))
                             ELSE NoResponse,
                !.pc = IF strip(q) = <<>> THEN "done" ELSE "classify",
                !.earlier = {s \in RunIds : runs[s].pc = "done"}]]
    /\ UNCHANGED <<worker, ragflow, heap>>

\* ClassifyIn with a store of conversations: a request that carries the id
\* of a conversation about labor law is taken to continue it
ClassifyIn_Remembering(r) ==
    /\ runs[r].pc = "classify"
    /\ LET run == runs[r]
           cid == run.request.conversation_id
           verdict == \/ is_legal_question(run.question)
                      \/ /\ cid # None
                         /\ \E s \in RunIds \ {r} :
                                /\ runs[s].request.conversation_id = cid
                                /\ runs[s].is_legal
       IN  runs' = [runs EXCEPT ![r] =
                IF verdict
                THEN [run EXCEPT !.is_legal = TRUE, !.pc = "retrieve"]
                ELSE [run EXCEPT !.is_legal = FALSE, !.pc = "done",
                                 !.response = Ok(InitialResponse(FALSE, cid))]]
    /\ UNCHANGED <<worker, ragflow, heap>>

\* lines 190-198, and 213-214 when the verdict is false
ClassifyIn(r) ==
    /\ runs[r].pc = "classify"
    /\ LET run == runs[r]
           cid == run.request.conversation_id
           verdict == is_legal_question(run.question)
       IN  runs' = [runs EXCEPT ![r] =
                IF verdict
                THEN [run EXCEPT !.is_legal = TRUE, !.pc = "retrieve"]
                ELSE [run EXCEPT !.is_legal = FALSE, !.pc = "done",
                                 !.response = Ok(InitialResponse(FALSE, cid))]]
    /\ UNCHANGED <<worker, ragflow, heap>>

\* RetrieveIn with a retriever that keeps the NodeWithScore objects it made
\* for the first query and hands them out again
RetrieveIn_Cached(r) ==
    /\ runs[r].pc = "retrieve"
    /\ LET run == runs[r]
       IN  IF ragflow = "undefined"
           THEN /\ runs' = [runs EXCEPT ![r] =
                        [run EXCEPT !.raised = "NameError", !.pc = "done",
                                    !.response = except_Exception("NameError")]]
                /\ UNCHANGED heap
           ELSE \E outcome \in RunRetrieverOutcomes :
                    IF outcome.kind = "error"
                    THEN /\ runs' = [runs EXCEPT ![r] =
                                [run EXCEPT !.retrieved = outcome, !.raised = "RetrievalError",
                                            !.pc = "done",
                                            !.response = except_Exception("RetrievalError")]]
                         /\ UNCHANGED heap
                    ELSE /\ heap' = [a \in Addresses |->
                                        IF a[1] = 1 /\ a[2] <= Len(outcome.nodes)
                                                    /\ heap[a] = NoObject
                                        THEN outcome.nodes[a[2]]
                                        ELSE heap[a]]
                         /\ runs' = [runs EXCEPT ![r] =
                                [run EXCEPT !.retrieved = outcome, !.pc = "rerank",
                                            !.nodes = [k \in 1..Len(outcome.nodes) |-> <<1, k>>]]]
    /\ UNCHANGED <<worker, ragflow>>

\* api.py line 201 and RagFlow.answer line 119: the index query makes new
\* NodeWithScore objects for every call, or raises
RetrieveIn(r) ==
    /\ runs[r].pc = "retrieve"
    /\ LET run == runs[r]
       IN  IF ragflow = "undefined"
           THEN /\ runs' = [runs EXCEPT ![r] =
                        [run EXCEPT !.raised = "NameError", !.pc = "done",
                                    !.response = except_Exception("NameError")]]
                /\ UNCHANGED heap
           ELSE \E outcome \in RunRetrieverOutcomes :
                    IF outcome.kind = "error"
                    THEN /\ runs' = [runs EXCEPT ![r] =
                                [run EXCEPT !.retrieved = outcome, !.raised = "RetrievalError",
                                            !.pc = "done",
                                            !.response = except_Exception("RetrievalError")]]
                         /\ UNCHANGED heap
                    ELSE /\ heap' = [a \in Addresses |->
                                        IF a[1] = r /\ a[2] <= Len(outcome.nodes)
                                        THEN outcome.nodes[a[2]]
                                        ELSE heap[a]]
                         /\ runs' = [runs EXCEPT ![r] =
                                [run EXCEPT !.retrieved = outcome, !.pc = "rerank",
                                            !.nodes = [k \in 1..Len(outcome.nodes) |-> <<r, k>>]]]
    /\ UNCHANGED <<worker, ragflow>>

\* RagFlow.rerank lines 102-105 and the early return of lines 86-87
RerankIn(r) ==
    /\ runs[r].pc = "rerank"
    /\ LET run == runs[r]
       IN  runs' = [runs EXCEPT ![r] =
                IF run.nodes = <<>>
                THEN [run EXCEPT !.reranked_nodes = Truncate(run.nodes), !.pc = "filter"]
                ELSE [run EXCEPT !.i = 0, !.all_results = <<>>, !.pc = "batch"]]
    /\ UNCHANGED <<worker, ragflow, heap>>

\* one iteration of the batch loop (lines 93-105): node.score is written into
\* the objects of the batch; a score that float() rejects raises into the
\* handler of lines 111-113
RerankBatchIn(r) ==
    /\ runs[r].pc = "batch"
    /\ runs[r].i < Len(runs[r].nodes)
    /\ LET run == runs[r]
           n == Min(batch_size, Len(run.nodes) - run.i)
       IN  \E outcome \in RunServiceOutcomes[n] :
            LET rerank_results == _call_dashscope_rerank(outcome)
                z == Min(n, Len(rerank_results))
                bad == FirstBad(rerank_results, z)
                upd == IF bad = 0 THEN z ELSE bad - 1
            IN  /\ heap' = [a \in Addresses |->
                            IF \E p \in 1..upd : run.nodes[run.i + p] = a
                            THEN [heap[a] EXCEPT !.score =
                                    rerank_results[CHOOSE p \in 1..upd :
                                                       run.nodes[run.i + p] = a].relevance_score]
                            ELSE heap[a]]
                /\ runs' = [runs EXCEPT ![r] =
                        IF bad = 0
                        THEN [run EXCEPT
                                !.rerank_log = Append(run.rerank_log, outcome),
                                !.all_results = run.all_results \o
                                                [p \in 1..z |-> run.nodes[run.i + p]],
                                !.i = run.i + batch_size]
                        ELSE [run EXCEPT
                                !.rerank_log = Append(run.rerank_log, outcome),
                                !.reranked_nodes = Truncate(run.nodes),
                                !.pc = "filter"]]
    /\ UNCHANGED <<worker, ragflow>>

\* lines 107-109: the sort reads the score of each object as it is now
RerankSortIn(r) ==
    /\ runs[r].pc = "batch"
    /\ runs[r].i >= Len(runs[r].nodes)
    /\ LET run == runs[r]
           score == [a \in Addresses |-> heap[a].score]
       IN  runs' = [runs EXCEPT ![r] =
                [run EXCEPT !.reranked_nodes = Truncate(SortDesc(run.all_results, score)),
                            !.pc = "filter"]]
    /\ UNCHANGED <<worker, ragflow, heap>>

\* RagFlow.rerank lines 107-108 and RagFlow.answer lines 123-125
FilterIn(r) ==
    /\ runs[r].pc = "filter"
    /\ LET run == runs[r]
           kept == SelectSeq(run.reranked_nodes, LAMBDA a : filtered_nodes(<<heap[a]>>) # <<>>)
       IN  runs' = [runs EXCEPT ![r] =
                IF kept = <<>>
                THEN [run EXCEPT !.evidence = kept, !.answer = NoEvidenceMsg, !.pc = "respond"]
                ELSE [run EXCEPT !.evidence = kept, !.pc = "synthesize"]]
    /\ UNCHANGED <<worker, ragflow, heap>>

\* RagFlow.answer lines 127-128: the body without "choices" raises KeyError
SynthesizeIn(r) ==
    /\ runs[r].pc = "synthesize"
    /\ LET run == runs[r]
       IN  \E outcome \in GenerationOutcomes :
            LET body == _call_api(outcome)
            IN  runs' = [runs EXCEPT ![r] =
                    IF "choices" \in DOMAIN body
                    THEN [run EXCEPT !.generated = outcome, !.answer = body.choices,
                                     !.pc = "respond"]
                    ELSE [run EXCEPT !.generated = outcome, !.raised = "KeyError",
                                     !.response = except_Exception("KeyError"),
                                     !.pc = "done"]]
    /\ UNCHANGED <<worker, ragflow, heap>>

\* lines 203-214: process_nodes reads the score of each object as it is now
RespondIn(r) ==
    /\ runs[r].pc = "respond"
    /\ LET run == runs[r]
       IN  runs' = [runs EXCEPT ![r] =
                [run EXCEPT
                    !.response = Ok(ChatResponse(run.is_legal, run.request.conversation_id,
                                                 run.answer, Deref(run.evidence))),
                    !.pc = "done"]]
    /\ UNCHANGED <<worker, ragflow, heap>>

\* the server has run startup_event before the requests, the test client
\* of apiTest.py has not
InitRuns ==
    /\ pc = "idle"
    /\ request = NoRequest
    /\ question = <<>>
    /\ is_legal = FALSE
    /\ nodes = <<>>
    /\ i = 0
    /\ all_results = <<>>
    /\ rerank_log = <<>>
    /\ reranked_nodes = <<>>
    /\ evidence = <<>>
    /\ generated = "none"
    /\ answer = <<>>
    /\ raised = "none"
    /\ response = NoResponse
    /\ calls = <<>>
    /\ debug_info = NoDebugInfo
    /\ ragflow \in {"undefined", "ready"}
    /\ runs = NoRuns
    /\ heap = NoHeap

NextRuns ==
    \E r \in RunIds :
        \/ ReceiveIn(r)
        \/ ClassifyIn(r)
        \/ RetrieveIn(r)
        \/ RerankIn(r)
        \/ RerankBatchIn(r)
        \/ RerankSortIn(r)
        \/ FilterIn(r)
        \/ SynthesizeIn(r)
        \/ RespondIn(r)

SpecRuns == InitRuns /\ [][NextRuns]_vars

-----------------------------------------------------------------------------
(* A request served alone *)

\* _postprocess_nodes (lines 86-113) run by itself on its own copy ns of
\* the nodes, the service answering batch after batch with log: the nodes as
\* the loop leaves them, and the value returned (<<>> while a batch is
\* still to be answered)
RECURSIVE _postprocess_nodes(_, _, _, _)
_postprocess_nodes(ns, offset, acc, log) ==
    IF ns = <<>> THEN [nodes |-> ns, returned |-> Truncate(ns)]
    ELSE IF offset >= Len(ns)
    THEN LET score == [p \in 1..Len(ns) |-> ns[p].score]
             sorted == SortDesc(acc, score)
         IN  [nodes |-> ns,
              returned |-> Truncate([k \in 1..Len(sorted) |-> ns[sorted[k]]])]
    ELSE IF log = <<>> THEN [nodes |-> ns, returned |-> <<>>]
    ELSE LET n == Min(batch_size, Len(ns) - offset)
             rerank_results == _call_dashscope_rerank(Head(log))
             z == Min(n, Len(rerank_results))
             bad == FirstBad(rerank_results, z)
             upd == IF bad = 0 THEN z ELSE bad - 1
             updated == UpdateScores(ns, offset, rerank_results, upd)
         IN  IF bad = 0
             THEN _postprocess_nodes(updated, offset + batch_size,
                                     acc \o [p \in 1..z |-> offset + p], Tail(log))
             ELSE [nodes |-> updated, returned |-> Truncate(updated)]

\* what the reranker does to the nodes of a request that nothing else touches
Alone(run) == _postprocess_nodes(run.retrieved.nodes, 0, <<>>, run.rerank_log)

\* is_legal_question of every question a request can ask, once stripped
Verdict == [text \in {strip(q) : q \in Questions} |-> is_legal_question(text)]

\* chat_with_assistant for one request and nothing else: the response as a
\* function of the request and of what the services answered to it
chat_with_assistant(run) ==
    LET cid == run.request.conversation_id
        text == strip(run.request.question)
        found == filtered_nodes(Alone(run).returned)
    IN  IF text = <<>> THEN except_Exception(HTTPException(400, EmptyQuestionDetail))
        ELSE IF ~Verdict[text] THEN Ok(InitialResponse(FALSE, cid))
        ELSE IF ragflow = "undefined" THEN except_Exception("NameError")
        ELSE IF run.retrieved.kind = "error" THEN except_Exception("RetrievalError")
        ELSE IF found = <<>> THEN Ok(ChatResponse(TRUE, cid, NoEvidenceMsg, found))
        ELSE IF "choices" \notin DOMAIN _call_api(run.generated)
        THEN except_Exception("KeyError")
        ELSE Ok(ChatResponse(TRUE, cid, _call_api(run.generated).choices, found))

\* the response without the conversation id it echoes
Told(resp) == [resp EXCEPT !.body.conversation_id = None]

\* the services behaved in the same way for two requests
SameBehaviour(a, b) ==
    /\ a.retrieved = b.retrieved
    /\ a.rerank_log = b.rerank_log
    /\ a.generated = b.generated

\* r arrived after at least one other request had been answered
Later(r) == runs[r].earlier # {}

\* r and s were being served at the same time
Overlapping(r, s) ==
    /\ r # s
    /\ runs[r].pc # "idle" /\ runs[s].pc # "idle"
    /\ r \notin runs[s].earlier /\ s \notin runs[r].earlier

\* C23: a request that arrives after others were answered -- whatever they
\* asked, under the same conversation_id or not -- gets the verdict, the
\* evidence and the answer it would get as the only request ever made; and
\* two requests with the same question, for which the services behaved in
\* the same way, get the same response whatever came before each of them
C23_HistoryIndependent ==
    /\ \A r \in RunIds :
        Later(r) /\ runs[r].pc = "done" => runs[r].response = chat_with_assistant(runs[r])
    /\ \A r, s \in RunIds :
        /\ runs[r].pc = "done" /\ runs[s].pc = "done"
        /\ runs[r].earlier # runs[s].earlier
        /\ runs[r].request.question = runs[s].request.question
        /\ SameBehaviour(runs[r], runs[s])
        => Told(runs[r].response) = Told(runs[s].response)

\* the second request continues the conversation of the first, which was
\* answered with evidence before it arrived; it asks the same question, the
\* reranker scores its candidates differently and it is answered as well
C23_Witness ==
    /\ runs[1].pc = "done" /\ runs[2].pc = "done"
    /\ runs[2].earlier = {1}
    /\ runs[1].request.conversation_id = "test_conv_123"
    /\ runs[2].request = runs[1].request
    /\ runs[1].response.body.references # <<>>
    /\ runs[2].response.body.references # <<>>
    /\ runs[2].response.body.references # runs[1].response.body.references

\* C24: while and after requests overlap, the objects a request holds carry
\* the scores its own rerank calls wrote and no others, its verdict is the
\* classifier's, its evidence has the members, scores and order that its
\* own run of the reranker yields, and its response is the one it would
\* get alone
C24_RunsIsolated ==
    \A r \in RunIds :
        (\E s \in RunIds : Overlapping(r, s)) =>
            LET run == runs[r]
            IN  /\ run.pc \notin {"idle", "classify"} => run.is_legal = Verdict[run.question]
                /\ run.retrieved.kind = "ok" => Deref(run.nodes) = Alone(run).nodes
                /\ run.pc \in {"synthesize", "respond"} \/ (run.pc = "done" /\ run.raised = "none"
                                                           /\ run.is_legal) =>
                        Deref(run.evidence) = filtered_nodes(Alone(run).returned)
                /\ run.pc = "done" => run.response = chat_with_assistant(run)

\* two requests are in the batch loop at the same time, each has had the
\* scores of its first batch written into its objects, and the two were
\* scored differently
C24_Witness ==
    /\ Overlapping(1, 2)
    /\ runs[1].pc = "batch" /\ runs[2].pc = "batch"
    /\ runs[1].i > 0 /\ runs[2].i > 0
    /\ runs[1].all_results # <<>> /\ runs[2].all_results # <<>>
    /\ Deref(runs[1].all_results) # Deref(runs[2].all_results)

====
